---- MODULE Spec2Model ----
(***************************************************************************)
(* A model of the stock-change detection pipeline of shein-verse-bot.      *)
(*                                                                         *)
(* The repository holds two programs.  bot.py is a self-contained          *)
(* SheinVerseBot: run_30_second_bot drives check_shein_verse_stock, which  *)
(* fetches the SHEIN VERSE page, extracts product records, and calls       *)
(* send_telegram_alert for every men's record whose id is not yet in       *)
(* seen_products.  main.py is a second SheinVerseBot whose scan_products   *)
(* asks a scraper, a database and a telegram object what to do.            *)
(* shein_client.py is a SheinClient whose get_shein_verse_men tries three  *)
(* fetch strategies through _make_request.                                 *)
(*                                                                         *)
(* Both are asyncio programs: a coroutine runs without interruption from   *)
(* one await to the next.  Every action below is one such uninterrupted    *)
(* stretch of code, ending at the next network await (fetch, send_photo,   *)
(* send_message) or at the coroutine's return.                             *)
(***************************************************************************)
EXTENDS Integers, Sequences, FiniteSets, TLC

(***************************************************************************)
(* Bounds of the model.                                                    *)
(***************************************************************************)
MaxProducts == 2     \* listings on one fetched page
MaxChecks == 2       \* check_shein_verse_stock cycles of one bot instance
MaxScans == 10       \* value of check_count after which main.py starts no scan
MaxAge == 3          \* seconds up to which elapsed time is counted
MaxLatency == 1      \* seconds a request takes at most
MaxItems == 2        \* containers of a drawn page
MaxMatches == 2      \* matches of product_pattern on a drawn page
MaxRuns == 2         \* invocations of extract_shein_verse_products on one page
MaxWords == 2        \* words of a drawn product name
MaxOfflineChecks == 241  \* checks of one bot instance while the site is unreachable
MaxExtractions == 3  \* invocations of _extract_product_info on one element
MaxSizeElems == 2    \* size elements of a drawn product page
LongPage == 51       \* elements of a long drawn page
LongName == 101      \* characters of a long drawn name

(***************************************************************************)
(* Program constants.                                                      *)
(***************************************************************************)
EstimatedMen == 28       \* bot.py:302, men count returned on extraction error
EstimatedWomen == 129    \* bot.py:302, women count returned on extraction error
SummaryEvery == 240      \* bot.py:471, checks between two summaries
MainSummaryEvery == 10   \* main.py:91, scans between two summaries
MAX_RETRIES == 3         \* config.py:21
RANDOM_DELAY_MIN == 2    \* config.py:26
RANDOM_DELAY_MAX == 5    \* config.py:27
MinSpacing == 2          \* shein_client.py:73, seconds between two requests
RateLimitedSleep == 30   \* shein_client.py:113, sleep after a 429
BlockedWaitMin == 30     \* shein_client.py:138, wait of _handle_blocked
BlockedWaitMax == 120    \* shein_client.py:138
StrategyFailSleep == 5   \* shein_client.py:173, sleep of the except branch
DetailDelayMin == 3      \* shein_client.py:379, sleep before a detail request
DetailDelayMax == 7      \* shein_client.py:379
NameCap == 100           \* bot.py:189, product_name[:100]
JsonCap == 30            \* bot.py:220, products_data[:30]
RegexCap == 30           \* bot.py:264, matches[:30]
RandomIdMin == 1000000   \* shein_client.py:310, random.randint(1000000, 9999999)
RandomIdMax == 9999999   \* shein_client.py:310

(* The product ids pages may list.  The properties speak of one id or of   *)
(* two distinct ids of one page, so two values cover their cases.          *)
Ids == {"p1", "p2"}
Tasks == {1, 2}
Genders == {"men", "women"}

(***************************************************************************)
(* What a fetched page lists for one product: the id the extractor derives *)
(* from its URL, the gender the extractor's keyword rules assign to it,    *)
(* and whether it carries an image.                                        *)
(***************************************************************************)
Listing == [id : Ids, gender : Genders, image : BOOLEAN]

Pages == UNION {[1..n -> Listing] : n \in 0..MaxProducts}

(* What fetch_shein_verse gives: None, html on which the extraction raises, *)
(* or html that lists products.                                            *)
NoHtml == [kind |-> "none", listings |-> <<>>]
BadHtml == [kind |-> "unparsable", listings |-> <<>>]

Responses == {NoHtml, BadHtml} \cup {[kind |-> "page", listings |-> p] : p \in Pages}

(* bot.py runs with the site answering anything ("bot"), or with the site  *)
(* unreachable for the whole run ("bot_offline"): fetch_shein_verse then   *)
(* gives None every time, and the run is followed over more checks.        *)
BotProgs == {"bot", "bot_offline"}

(* An id the extractor took from the page that is no hashable value: the   *)
(* JSON method stores item.get('goods_id') as it is, a list when the page  *)
(* gives one.                                                              *)
Unhashable == "[1]"

Hashable(id) == id # Unhashable

(* A page that lists a men's product and then one with such an id.         *)
BadIdPages ==
    {[kind |-> "page",
      listings |-> <<[id |-> "p1", gender |-> "men", image |-> FALSE],
                     [id |-> Unhashable, gender |-> "men", image |-> FALSE]>>]}

ResponsesOf(p) ==
    IF p = "bot_offline" THEN {NoHtml}
    ELSE IF p = "bot" THEN Responses \cup BadIdPages
    ELSE Responses

ChecksCap(p) == IF p = "bot_offline" THEN MaxOfflineChecks ELSE MaxChecks

(***************************************************************************)
(* The product dict built by extract_shein_verse_products.                 *)
(***************************************************************************)
Product(l) == [id |-> l.id, gender |-> l.gender, image |-> l.image]

RECURSIVE CountGender(_, _)
CountGender(prods, g) ==
    IF prods = <<>> THEN 0
    ELSE (IF Head(prods).gender = g THEN 1 ELSE 0) + CountGender(Tail(prods), g)

(***************************************************************************)
(* extract_shein_verse_products: the list of product dicts with the two    *)
(* counters it keeps while appending, or, when the extraction raises, the  *)
(* empty list with the estimated counts.                                   *)
(***************************************************************************)
Extract(html) ==
    IF html = BadHtml
    THEN [products |-> <<>>, men_count |-> EstimatedMen, women_count |-> EstimatedWomen]
    ELSE LET prods == [i \in 1..Len(html.listings) |-> Product(html.listings[i])]
         IN  [products |-> prods,
              men_count |-> CountGender(prods, "men"),
              women_count |-> CountGender(prods, "women")]

(***************************************************************************)
(* The message send_telegram_alert renders once per call; the same value   *)
(* is the photo's caption and the text of the fallback message.            *)
(***************************************************************************)
Render(product, alert_type) ==
    [type |-> alert_type, id |-> product.id, gender |-> product.gender]

NoMsg == [type |-> "none", id |-> "none", gender |-> "none"]

(* `caption=message` of send_photo, bot.py:327 *)
Caption(message) == message

(* `text=message` of send_message, bot.py:334 and bot.py:341 *)
TextBody(message) == message

(* A send_telegram_alert that sends the text after every photo attempt.    *)
TextAlways(photoOk) == TRUE

(* The bare `except:` of bot.py:330: the text is sent when send_photo raised. *)
TextAfterPhoto(photoOk) == ~photoOk

(* The alert type check_shein_verse_stock passes for an unseen men's id.   *)
NewAlertType == "NEW"

(* A check that does not consult seen_products.                            *)
IsUnseenAlways(product, seen) == TRUE

(* `if product_id not in self.seen_products`                               *)
IsUnseen(product, seen) == product.id \notin DOMAIN seen

(* A send_telegram_alert without its outer except.                         *)
AlertPropagatesException == FALSE

(* `except Exception as e: logger.error(...)` around send_telegram_alert.  *)
AlertCatchesException == TRUE

(* What send_telegram_alert returns: it has no return statement.           *)
AlertReturnValue(delivered) == "None"

(* A counter advanced in a finally branch, delivered or not.               *)
AlertsSentAlways(n, delivered) == n + 1

(* `self.stats['alerts_sent'] += 1`, reached only when a delivery returned. *)
AlertsSentAfter(n, delivered) == IF delivered THEN n + 1 ELSE n

(* `if product.get('image')`                                               *)
HasImage(product) == product.image

(* A check_shein_verse_stock that extracts whatever the fetch gave.        *)
ExtractsWithoutHtml(html) == FALSE

(* `if not html: ... return` of check_shein_verse_stock.                   *)
ReturnsWithoutHtml(html) == html = NoHtml

(* What the history records of a fetch.                                    *)
FetchedKind(html) ==
    IF html = NoHtml THEN "none" ELSE IF html = BadHtml THEN "error" ELSE "page"

VARIABLES
    prog,            \* which program runs: "bot", "bot_offline" (bot.py), "main" (main.py),
                     \* "overlap", "client", or the pure function applied
    credentials,     \* TELEGRAM_BOT_TOKEN and TELEGRAM_CHAT_ID of the environment
    spc,             \* position of run_30_second_bot / main() of bot.py
    check_counter,   \* local check_counter of run_30_second_bot
    loopSummaries,   \* history: summaries the while loop sent since construction
    seen_products,   \* self.seen_products : id -> product
    men_products,    \* self.men_products
    women_products,  \* self.women_products
    stats,           \* self.stats
    pc,              \* per task: position of check_shein_verse_stock
    products,        \* per task: the extracted list
    idx,             \* per task: index of the for loop
    call,            \* per task: the send_telegram_alert call in progress
    \* history of the run, read by the properties only
    alertLog,        \* per task: the send_telegram_alert calls of the cycle, completed
    seenAtStart,     \* per task: ids in seen_products when the cycle began
    fetched,         \* per task: what the cycle's fetch gave
    newAlertCount,   \* per id: NEW alerts the bot instance attempted
    alertedBefore,   \* ids earlier bot instances of this run of main() alerted
    watchStock,      \* whether the history records the stock the pages show
    restockDue,      \* per task: tracked men's ids the cycle's page shows restocked
    \* main.py
    cadence,         \* what preceded the latest poll cycle: see StartsCycle
    mpc,             \* position of main(), start() and run()
    is_running,      \* self.is_running
    check_count,     \* self.check_count
    scan,            \* the latest scan_products call, with its history
    stop_called,     \* history: stop() has run
    \* shein_client.py
    cpc,             \* position of get_shein_verse_men
    strat,           \* index of the strategy of its for loop
    found,           \* `products`, what the strategy returned
    di,              \* index of the loop over products
    detailed,        \* `detailed_products`
    result,          \* what get_shein_verse_men returned
    session,         \* self.session: the number of the session in use
    last_request_time, \* self.last_request_time, as seconds elapsed since
    \* history of the client, read by the properties only
    invoked,         \* the strategies invoked, in order
    stratOutcome,    \* per strategy: how its invocation ended
    stratFailure,    \* per strategy: how its request failed
    attempts,        \* per strategy: requests issued for it
    lastReq,         \* how the latest finished request ended
    sinceIssue,      \* seconds elapsed since the latest HTTP request was issued
    issueGap,        \* seconds between the latest two issues of HTTP requests
    \* pure functions of bot.py and shein_client.py applied to drawn inputs
    page,            \* the html given to extract_shein_verse_products
    runs,            \* what its invocations on page returned, in order
    item,            \* the product given to _is_men_product
    verdict,         \* what _is_men_product returned
    element,         \* the element given to _extract_product_info
    ids,             \* the ids its invocations on element gave, in order
    detailPage,      \* the size elements of the page given to _parse_sizes
    sizes,           \* what _parse_sizes returned
    delivery         \* one call of TelegramManager.send_product_alert

botVars == <<seen_products, men_products, women_products, stats>>
taskVars == <<pc, products, idx, call>>
runVars == <<watchStock, alertedBefore>>
histVars == <<alertLog, seenAtStart, fetched, newAlertCount, runVars, restockDue>>
mainVars == <<mpc, is_running, check_count, scan, stop_called>>
envVars == <<prog, credentials>>
loopVars == <<check_counter, loopSummaries>>
schedVars == <<cadence, spc, loopVars, botVars, taskVars, histVars, mainVars>>
clientVars == <<cpc, strat, found, di, detailed, result, session, last_request_time,
                invoked, stratOutcome, stratFailure, attempts, lastReq,
                sinceIssue, issueGap>>
identVars == <<element, ids>>
sizeVars == <<detailPage, sizes>>
pureVars == <<page, runs, item, verdict, identVars, sizeVars, delivery>>
libVars == <<clientVars, pureVars>>
vars == <<envVars, schedVars, libVars>>

NoCall == [message |-> NoMsg, photo |-> "none", caption |-> NoMsg,
           text |-> "none", body |-> NoMsg]

EmptyMap == [i \in {} |-> 0]

(* SheinVerseBot.__init__ *)
NewStats == [total_checks |-> 0, men_count |-> 0, women_count |-> 0, alerts_sent |-> 0]

InitBot ==
    /\ seen_products = EmptyMap
    /\ men_products = EmptyMap
    /\ women_products = EmptyMap
    /\ stats = NewStats
    /\ check_counter = 0
    /\ loopSummaries = 0
    /\ pc = [t \in Tasks |-> "idle"]
    /\ products = [t \in Tasks |-> <<>>]
    /\ idx = [t \in Tasks |-> 0]
    /\ call = [t \in Tasks |-> NoCall]
    /\ alertLog = [t \in Tasks |-> <<>>]
    /\ seenAtStart = [t \in Tasks |-> {}]
    /\ fetched = [t \in Tasks |-> "idle"]
    /\ newAlertCount = [i \in Ids |-> 0]
    /\ alertedBefore = {}
    /\ restockDue = [t \in Tasks |-> {}]

(* main.py, SheinVerseBot.__init__ *)
NoScan == [status |-> "idle", list |-> <<>>, i |-> 0, alerted |-> {},
           failedAt |-> 0, outcome |-> "none", count_at_start |-> 0]

InitMain ==
    /\ mpc = "test_connection"
    /\ is_running = FALSE
    /\ check_count = 0
    /\ scan = NoScan
    /\ stop_called = FALSE

(***************************************************************************)
(* The history of the scheduler's cadence.  "first": no poll cycle has     *)
(* started.  "slept": a sleep of the scheduler ended and no cycle started  *)
(* since.  "fresh": the latest cycle was the first one or started after a  *)
(* sleep.  "back_to_back": the latest cycle started after another cycle    *)
(* with no sleep of the scheduler between them.                            *)
(***************************************************************************)
StartsCycle(c) == IF c \in {"first", "slept"} THEN "fresh" ELSE "back_to_back"

(* The for loop without its test of the gender: every unseen record is     *)
(* alerted.                                                                *)
RECURSIVE RunLoopAnyGender(_, _, _, _)
RunLoopAnyGender(prods, i, seen, women) ==
    IF i > Len(prods) THEN [idx |-> i, women |-> women, raised |-> FALSE]
    ELSE IF ~Hashable(prods[i].id) THEN [idx |-> i, women |-> women, raised |-> TRUE]
    ELSE IF IsUnseen(prods[i], seen) THEN [idx |-> i, women |-> women, raised |-> FALSE]
         ELSE RunLoopAnyGender(prods, i + 1, seen, women)

(***************************************************************************)
(* The for loop of check_shein_verse_stock from index i up to its next     *)
(* await: women's records are entered into women_products when absent,     *)
(* men's records already in seen_products are passed over.  The result is  *)
(* the index of the first men's record that needs an alert (Len + 1 when   *)
(* the loop ends without one) and women_products as it then stands.  Both  *)
(* branches test `product_id not in` a dict, which raises TypeError for an *)
(* id that is not hashable: the loop then ends at that record, raised.     *)
(***************************************************************************)
RECURSIVE RunLoop(_, _, _, _)
RunLoop(prods, i, seen, women) ==
    IF i > Len(prods) THEN [idx |-> i, women |-> women, raised |-> FALSE]
    ELSE LET product == prods[i]
         IN  IF ~Hashable(product.id)
             THEN [idx |-> i, women |-> women, raised |-> TRUE]
             ELSE IF product.gender = "men"
             THEN IF IsUnseen(product, seen)
                  THEN [idx |-> i, women |-> women, raised |-> FALSE]
                  ELSE RunLoop(prods, i + 1, seen, women)
             ELSE RunLoop(prods, i + 1, seen,
                          IF product.id \notin DOMAIN women
                          THEN (product.id :> product) @@ women
                          ELSE women)

(***************************************************************************)
(* Task t goes on with its for loop at index i.  When a men's record needs *)
(* an alert, send_telegram_alert starts: it renders the message and awaits *)
(* send_photo (the product has an image) or send_message.                  *)
(***************************************************************************)
Proceed(t, prods, i, seen, women) ==
    LET r == RunLoop(prods, i, seen, women)
    IN  /\ women_products' = r.women
        /\ idx' = [idx EXCEPT ![t] = r.idx]
        /\ IF r.raised
           THEN /\ pc' = [pc EXCEPT ![t] = "raised"]
                /\ call' = [call EXCEPT ![t] = NoCall]
                /\ UNCHANGED newAlertCount
           ELSE IF r.idx > Len(prods)
           THEN /\ pc' = [pc EXCEPT ![t] = "returned"]
                /\ call' = [call EXCEPT ![t] = NoCall]
                /\ UNCHANGED newAlertCount
           ELSE LET product == prods[r.idx]
                    message == Render(product, NewAlertType)
                IN  /\ newAlertCount' = [newAlertCount EXCEPT ![product.id] = @ + 1]
                    /\ IF HasImage(product)
                       THEN /\ pc' = [pc EXCEPT ![t] = "photo"]
                            /\ call' = [call EXCEPT ![t] =
                                 [message |-> message, photo |-> "pending",
                                  caption |-> Caption(message),
                                  text |-> "none", body |-> NoMsg]]
                       ELSE /\ pc' = [pc EXCEPT ![t] = "text"]
                            /\ call' = [call EXCEPT ![t] =
                                 [message |-> message, photo |-> "none",
                                  caption |-> NoMsg,
                                  text |-> "pending", body |-> TextBody(message)]]

(* The ids of the men's records of a list.                                 *)
MenIds(prods) == {prods[i].id : i \in {j \in DOMAIN prods : prods[j].gender = "men"}}

(* The sets of tracked men's ids a page may show restocked.                *)
Restocks(prods) ==
    IF watchStock THEN SUBSET (MenIds(prods) \cap DOMAIN seen_products) ELSE {{}}

(***************************************************************************)
(* check_shein_verse_stock, from its entry to `await fetch_shein_verse()`. *)
(***************************************************************************)
CheckStart(t) ==
    /\ pc[t] = "idle"
    /\ stats.total_checks < ChecksCap(prog)
    /\ stats' = [stats EXCEPT !.total_checks = @ + 1]
    /\ pc' = [pc EXCEPT ![t] = "fetch"]
    /\ products' = [products EXCEPT ![t] = <<>>]
    /\ idx' = [idx EXCEPT ![t] = 0]
    /\ alertLog' = [alertLog EXCEPT ![t] = <<>>]
    /\ seenAtStart' = [seenAtStart EXCEPT ![t] = DOMAIN seen_products]
    /\ fetched' = [fetched EXCEPT ![t] = "pending"]
    /\ restockDue' = [restockDue EXCEPT ![t] = {}]
    /\ UNCHANGED <<seen_products, men_products, women_products, call,
                   newAlertCount, runVars>>

(***************************************************************************)
(* fetch_shein_verse returns.  Without html the check returns.  Otherwise  *)
(* the page is extracted, the counts are stored, and the for loop runs up  *)
(* to its first alert.  The page also shows the stock of its products: in  *)
(* restocked are the tracked men's ids it shows in stock that the last     *)
(* page listing them showed out of stock.  The extractor reads nothing of  *)
(* it, and only the history records it.                                    *)
(***************************************************************************)
FetchDone(t) ==
    /\ pc[t] = "fetch"
    /\ \E html \in ResponsesOf(prog) :
         IF ReturnsWithoutHtml(html)
         THEN /\ pc' = [pc EXCEPT ![t] = "returned"]
              /\ fetched' = [fetched EXCEPT ![t] = FetchedKind(html)]
              /\ UNCHANGED <<botVars, products, idx, call, alertLog, seenAtStart,
                             newAlertCount, runVars, restockDue>>
         ELSE \E restocked \in Restocks(Extract(html).products) :
              LET ex == Extract(html)
              IN  /\ stats' = [stats EXCEPT !.men_count = ex.men_count,
                                            !.women_count = ex.women_count]
                  /\ products' = [products EXCEPT ![t] = ex.products]
                  /\ fetched' = [fetched EXCEPT ![t] = FetchedKind(html)]
                  /\ restockDue' = [restockDue EXCEPT ![t] = restocked]
                  /\ Proceed(t, ex.products, 1, seen_products, women_products)
                  /\ UNCHANGED <<seen_products, men_products, alertLog, seenAtStart,
                                 runVars>>

(***************************************************************************)
(* send_telegram_alert ends for the record at idx[t], with c the call as   *)
(* it ended.  A delivery that returned is counted.  A send_message that    *)
(* raised is caught by the outer except.  Back in the check, the record is *)
(* entered into seen_products and men_products and the for loop goes on.   *)
(***************************************************************************)
AlertFinish(t, c, delivered) ==
    LET product == products[t][idx[t]]
        sent == AlertsSentAfter(stats.alerts_sent, delivered)
        entry == [id |-> product.id, image |-> product.image,
                  message |-> c.message,
                  photo |-> c.photo, caption |-> c.caption,
                  text |-> c.text, body |-> c.body,
                  counted |-> sent - stats.alerts_sent,
                  ret |-> AlertReturnValue(delivered)]
        seen == (product.id :> product) @@ seen_products
    IN  /\ alertLog' = [alertLog EXCEPT ![t] = Append(@, entry)]
        /\ stats' = [stats EXCEPT !.alerts_sent = sent]
        /\ UNCHANGED <<products, seenAtStart, fetched, runVars, restockDue>>
        /\ IF ~delivered /\ ~AlertCatchesException
           THEN /\ pc' = [pc EXCEPT ![t] = "raised"]
                /\ call' = [call EXCEPT ![t] = NoCall]
                /\ UNCHANGED <<seen_products, men_products, women_products, idx,
                               newAlertCount>>
           ELSE /\ seen_products' = seen
                /\ men_products' = (product.id :> product) @@ men_products
                /\ Proceed(t, products[t], idx[t] + 1, seen, women_products)

(* `await self.bot.send_photo(...)` returns or raises.                     *)
PhotoDone(t) ==
    /\ pc[t] = "photo"
    /\ \E ok \in BOOLEAN :
         LET c == [call[t] EXCEPT !.photo = IF ok THEN "ok" ELSE "fail"]
         IN  IF TextAfterPhoto(ok)
             THEN /\ pc' = [pc EXCEPT ![t] = "text"]
                  /\ call' = [call EXCEPT ![t] =
                                [c EXCEPT !.text = "pending",
                                          !.body = TextBody(c.message)]]
                  /\ UNCHANGED <<botVars, products, idx, histVars>>
             ELSE AlertFinish(t, c, ok)

(* `await self.bot.send_message(...)` returns or raises.                   *)
TextDone(t) ==
    /\ pc[t] = "text"
    /\ \E ok \in BOOLEAN :
         AlertFinish(t, [call[t] EXCEPT !.text = IF ok THEN "ok" ELSE "fail"], ok)

(* A step of a running check_shein_verse_stock.                             *)
Task(t) ==
    /\ FetchDone(t) \/ PhotoDone(t) \/ TextDone(t)
    /\ UNCHANGED <<libVars, envVars, cadence, spc, loopVars, mainVars>>

(* The coroutine of task t is over: its locals, and the history kept of    *)
(* its cycle, are gone.                                                    *)
TaskEnds(t) ==
    /\ pc' = [pc EXCEPT ![t] = "idle"]
    /\ products' = [products EXCEPT ![t] = <<>>]
    /\ idx' = [idx EXCEPT ![t] = 0]
    /\ alertLog' = [alertLog EXCEPT ![t] = <<>>]
    /\ seenAtStart' = [seenAtStart EXCEPT ![t] = {}]
    /\ fetched' = [fetched EXCEPT ![t] = "idle"]
    /\ restockDue' = [restockDue EXCEPT ![t] = {}]
    /\ UNCHANGED <<call, newAlertCount, runVars>>

(***************************************************************************)
(* bot.py, run_30_second_bot and main().                                   *)
(***************************************************************************)

(* send_shein_verse_summary: without html it returns; otherwise it stores  *)
(* the extracted counts and sends the summary, whose failure it logs.      *)
SummaryStats(html) ==
    IF html = NoHtml THEN stats
    ELSE [stats EXCEPT !.men_count = Extract(html).men_count,
                       !.women_count = Extract(html).women_count]

(* Where run_30_second_bot stands after a check of its while loop: the     *)
(* except branch sleeps 30 seconds and the loop sleeps again.              *)
AfterLoopCheck(raised) == "sleep"

(* A main() that treats the ValueError like any other exception.           *)
RestartOnValueError == "restart"

(* `except ValueError` of main(): the error is logged and main() returns.   *)
OnValueError == "config_error"

(* A loop that sends the summary one check later.                          *)
SummaryDueLate(c) == c > SummaryEvery

(* `if check_counter >= 240`                                               *)
SummaryDue(c) == c >= SummaryEvery

(* main() constructs the bot.  SheinVerseBot.__init__ raises ValueError    *)
(* when the token or the chat id is empty, before it assigns any field;    *)
(* otherwise it assigns the fields and main() calls run_30_second_bot.     *)
Construct ==
    /\ prog \in BotProgs
    /\ spc = "construct"
    /\ IF credentials = "missing"
       THEN /\ spc' = OnValueError
            /\ UNCHANGED <<loopVars, botVars, taskVars, alertLog, seenAtStart,
                           fetched, restockDue, newAlertCount, alertedBefore>>
       ELSE /\ spc' = "startup"
            /\ seen_products' = EmptyMap
            /\ men_products' = EmptyMap
            /\ women_products' = EmptyMap
            /\ stats' = NewStats
            /\ check_counter' = 0
            /\ loopSummaries' = 0
            /\ pc' = [t \in Tasks |-> "idle"]
            /\ products' = [t \in Tasks |-> <<>>]
            /\ idx' = [t \in Tasks |-> 0]
            /\ call' = [t \in Tasks |-> NoCall]
            /\ alertLog' = [t \in Tasks |-> <<>>]
            /\ seenAtStart' = [t \in Tasks |-> {}]
            /\ fetched' = [t \in Tasks |-> "idle"]
            /\ restockDue' = [t \in Tasks |-> {}]
            /\ newAlertCount' = [i \in Ids |-> 0]
            /\ alertedBefore' = alertedBefore \cup {i \in Ids : newAlertCount[i] > 0}
    /\ UNCHANGED <<libVars, envVars, cadence, watchStock, mainVars>>

(* The startup message of run_30_second_bot is sent outside any try: when  *)
(* it raises, main() logs, sleeps 30 seconds and calls itself.             *)
StartupMessage ==
    /\ prog \in BotProgs
    /\ spc = "startup"
    /\ \E ok \in BOOLEAN : spc' = IF ok THEN "initial_summary" ELSE "restart"
    /\ UNCHANGED <<libVars, envVars, cadence, loopVars, botVars, taskVars, histVars, mainVars>>

(* `await asyncio.sleep(30)` of main()'s except branch ends and main() runs *)
(* again.                                                                  *)
Restart ==
    /\ prog \in BotProgs
    /\ spc = "restart"
    /\ spc' = "construct"
    /\ cadence' = IF cadence = "first" THEN "first" ELSE "slept"
    /\ UNCHANGED <<libVars, envVars, loopVars, botVars, taskVars, histVars, mainVars>>

InitialSummary ==
    /\ prog \in BotProgs
    /\ spc = "initial_summary"
    /\ \E html \in ResponsesOf(prog) : stats' = SummaryStats(html)
    /\ spc' = "first_check"
    /\ UNCHANGED <<libVars, envVars, cadence, loopVars, seen_products, men_products, women_products,
                   taskVars, histVars, mainVars>>

(* `await self.check_shein_verse_stock()` before the loop.                 *)
FirstCheck ==
    /\ prog \in BotProgs
    /\ spc = "first_check"
    /\ CheckStart(1)
    /\ spc' = "in_first_check"
    /\ cadence' = StartsCycle(cadence)
    /\ UNCHANGED <<libVars, envVars, loopVars, mainVars>>

(* The first check is outside the loop's try: an exception leaves          *)
(* run_30_second_bot.                                                      *)
FirstCheckReturn ==
    /\ prog \in BotProgs
    /\ spc = "in_first_check"
    /\ pc[1] \in {"returned", "raised"}
    /\ spc' = IF pc[1] = "raised" THEN "restart" ELSE "sleep"
    /\ TaskEnds(1)
    /\ UNCHANGED <<libVars, envVars, cadence, loopVars, botVars, mainVars>>

(* `await asyncio.sleep(30)` ends and the check of the loop begins.        *)
SleepDone ==
    /\ prog \in BotProgs
    /\ spc = "sleep"
    /\ CheckStart(1)
    /\ spc' = "in_check"
    /\ cadence' = StartsCycle("slept")
    /\ UNCHANGED <<libVars, envVars, loopVars, mainVars>>

(* The check of the loop returns: the counter advances, and when the       *)
(* summary is due it is sent and the counter is reset.  When the check     *)
(* raised, the except branch logs and sleeps.                              *)
LoopCheckReturn ==
    /\ prog \in BotProgs
    /\ spc = "in_check"
    /\ pc[1] \in {"returned", "raised"}
    /\ spc' = AfterLoopCheck(pc[1] = "raised")
    /\ TaskEnds(1)
    /\ IF pc[1] = "returned" /\ SummaryDue(check_counter + 1)
       THEN /\ check_counter' = 0
            /\ loopSummaries' = loopSummaries + 1
            /\ \E html \in ResponsesOf(prog) : stats' = SummaryStats(html)
       ELSE /\ check_counter' = IF pc[1] = "returned" THEN check_counter + 1
                                ELSE check_counter
            /\ UNCHANGED <<loopSummaries, stats>>
    /\ UNCHANGED <<libVars, envVars, cadence, seen_products, men_products, women_products, mainVars>>

(* The process is cancelled from outside while the loop sleeps.            *)
Cancel ==
    /\ prog \in BotProgs
    /\ spc = "sleep"
    /\ spc' = "cancelled"
    /\ UNCHANGED <<libVars, envVars, cadence, loopVars, botVars, taskVars, histVars, mainVars>>

BotNext ==
    \/ Construct
    \/ StartupMessage
    \/ Restart
    \/ InitialSummary
    \/ FirstCheck
    \/ FirstCheckReturn
    \/ SleepDone
    \/ LoopCheckReturn
    \/ Cancel
    \/ Task(1)

(***************************************************************************)
(* main.py.  The scraper, the database and the telegram object it calls    *)
(* are awaited collaborators: each call returns a value or raises.         *)
(***************************************************************************)

(* What db.check_product answers for a product: (is_new, is_restock).      *)
Kinds == {"new", "restock", "known"}

(* `if is_new or is_restock`                                               *)
IsDelta(kind) == kind \in {"new", "restock"}

ScanLists == UNION {[1..n -> Kinds] : n \in 1..MaxProducts}

(* The steps of the loop body of scan_products for one product, in order:  *)
(* check_product, get_product_details, send_product_alert, save_product.   *)
(* An outcome names the step that raised, or "ok".                         *)
StepOutcomes(kind) ==
    IF IsDelta(kind) THEN {"ok", "check", "details", "alert", "save"}
    ELSE {"ok", "check"}

(* send_product_alert is called unless an earlier step raised.             *)
AlertCalled(kind, outcome) == IsDelta(kind) /\ outcome \in {"ok", "alert", "save"}

(* The try of scan_products encloses the whole for loop: an exception of   *)
(* any step ends the scan in `except Exception`.                           *)
ScanAfterRaise(sc) == [sc EXCEPT !.status = "done", !.outcome = "raised",
                                 !.failedAt = sc.i]

(* A run() whose except branch leaves the loop.                            *)
RunBreaksOnException == "stopping"

(* run(): `except Exception: ... await asyncio.sleep(60)`                  *)
RunOnException == "except_sleep"

(* `if not await self.telegram.test_connection(): return False`, after     *)
(* which main() calls bot.stop().                                          *)
TestConnection ==
    /\ prog = "main"
    /\ mpc = "test_connection"
    /\ \E ok \in BOOLEAN : mpc' = IF ok THEN "startup_message" ELSE "stopping"
    /\ UNCHANGED <<libVars, envVars, cadence, spc, loopVars, botVars, taskVars, histVars, stop_called,
                   is_running, check_count, scan>>

(* send_startup_message returns, or raises and ends main().                *)
MainStartupMessage ==
    /\ prog = "main"
    /\ mpc = "startup_message"
    /\ \E ok \in BOOLEAN : mpc' = IF ok THEN "initial_scan" ELSE "crashed"
    /\ UNCHANGED <<libVars, envVars, cadence, spc, loopVars, botVars, taskVars, histVars, stop_called,
                   is_running, check_count, scan>>

(* scan_products is entered and awaits get_men_products.                   *)
ScanStart ==
    /\ prog = "main"
    /\ \/ mpc = "initial_scan" /\ scan.status = "idle"
       \/ mpc = "run_top" /\ is_running /\ scan.status = "done"
    /\ check_count < MaxScans
    /\ scan' = [NoScan EXCEPT !.status = "fetch", !.count_at_start = check_count]
    /\ mpc' = IF mpc = "run_top" THEN "run_scan" ELSE mpc
    /\ cadence' = StartsCycle(cadence)
    /\ UNCHANGED <<libVars, envVars, spc, loopVars, botVars, taskVars, histVars, stop_called,
                   is_running, check_count>>

(* get_men_products raises, returns nothing, or returns products.          *)
ScanFetch ==
    /\ prog = "main"
    /\ scan.status = "fetch"
    /\ \/ scan' = [scan EXCEPT !.status = "done", !.outcome = "raised"]
       \/ scan' = [scan EXCEPT !.status = "done", !.outcome = "empty"]
       \/ \E l \in ScanLists : scan' = [scan EXCEPT !.status = "loop", !.list = l, !.i = 1]
    /\ UNCHANGED <<libVars, envVars, cadence, spc, loopVars, botVars, taskVars, histVars, stop_called,
                   mpc, is_running, check_count>>

(* One pass of the for loop of scan_products.                              *)
ScanProduct ==
    /\ prog = "main"
    /\ scan.status = "loop"
    /\ scan.i <= Len(scan.list)
    /\ \E outcome \in StepOutcomes(scan.list[scan.i]) :
         LET sc == [scan EXCEPT !.alerted =
                      IF AlertCalled(scan.list[scan.i], outcome)
                      THEN @ \cup {scan.i} ELSE @]
         IN  scan' = IF outcome = "ok" THEN [sc EXCEPT !.i = @ + 1]
                     ELSE ScanAfterRaise(sc)
    /\ UNCHANGED <<libVars, envVars, cadence, spc, loopVars, botVars, taskVars, histVars, stop_called,
                   mpc, is_running, check_count>>

(* After the loop: the scan is counted and every MainSummaryEvery scans    *)
(* the summary is sent, whose exception the same try catches.              *)
ScanFinish ==
    /\ prog = "main"
    /\ scan.status = "loop"
    /\ scan.i > Len(scan.list)
    /\ check_count' = check_count + 1
    /\ \E ok \in BOOLEAN :
         scan' = [scan EXCEPT !.status = "done",
                    !.outcome = IF check_count' % MainSummaryEvery = 0 /\ ~ok
                                THEN "raised" ELSE "ok"]
    /\ UNCHANGED <<libVars, envVars, cadence, spc, loopVars, botVars, taskVars, histVars, stop_called,
                   mpc, is_running>>

(* The initial scan of start() returns: `self.is_running = True`.          *)
InitialScanReturn ==
    /\ prog = "main"
    /\ mpc = "initial_scan"
    /\ scan.status = "done"
    /\ is_running' = TRUE
    /\ mpc' = "run_top"
    /\ UNCHANGED <<libVars, envVars, cadence, spc, loopVars, botVars, taskVars, histVars, stop_called,
                   check_count, scan>>

(* The scan of run() returns; get_random_interval returns and the sleep    *)
(* begins, or it raises.                                                   *)
RunScanReturn ==
    /\ prog = "main"
    /\ mpc = "run_scan"
    /\ scan.status = "done"
    /\ \E ok \in BOOLEAN : mpc' = IF ok THEN "sleeping" ELSE RunOnException
    /\ UNCHANGED <<libVars, envVars, cadence, spc, loopVars, botVars, taskVars, histVars, stop_called,
                   is_running, check_count, scan>>

(* The sleep of run() ends, that of its try or that of its except branch.  *)
RunSleepDone ==
    /\ prog = "main"
    /\ mpc \in {"sleeping", "except_sleep"}
    /\ mpc' = "run_top"
    /\ cadence' = "slept"
    /\ UNCHANGED <<libVars, envVars, spc, loopVars, botVars, taskVars, histVars, stop_called,
                   is_running, check_count, scan>>

(* `while self.is_running` is false: run() returns to main().              *)
RunExit ==
    /\ prog = "main"
    /\ mpc = "run_top"
    /\ ~is_running
    /\ mpc' = "stopping"
    /\ UNCHANGED <<libVars, envVars, cadence, spc, loopVars, botVars, taskVars, histVars, stop_called,
                   is_running, check_count, scan>>

(* stop(), called by main() after run().                                   *)
MainStop ==
    /\ prog = "main"
    /\ mpc = "stopping"
    /\ is_running' = FALSE
    /\ stop_called' = TRUE
    /\ mpc' = "stopped"
    /\ UNCHANGED <<libVars, envVars, cadence, spc, loopVars, botVars, taskVars, histVars,
                   check_count, scan>>

(* stop(), run as a task by the signal handler.                            *)
SignalStop ==
    /\ prog = "main"
    /\ mpc \notin {"stopped", "crashed"}
    /\ is_running' = FALSE
    /\ stop_called' = TRUE
    /\ UNCHANGED <<libVars, envVars, cadence, spc, loopVars, botVars, taskVars, histVars,
                   mpc, check_count, scan>>

MainNext ==
    \/ TestConnection
    \/ MainStartupMessage
    \/ ScanStart
    \/ ScanFetch
    \/ ScanProduct
    \/ ScanFinish
    \/ InitialScanReturn
    \/ RunScanReturn
    \/ RunSleepDone
    \/ RunExit
    \/ MainStop
    \/ SignalStop

(***************************************************************************)
(* Text.  A string is the sequence of its characters, so that the          *)
(* substring tests and lower() of the code are computed on it.             *)
(***************************************************************************)

(* `k in s` of two strings.                                                *)
Contains(s, k) ==
    \E i \in 1..(Len(s) - Len(k) + 1) : SubSeq(s, i, i + Len(k) - 1) = k

UpperToLower ==
    ("A" :> "a" @@ "B" :> "b" @@ "C" :> "c" @@ "D" :> "d" @@
     "E" :> "e" @@ "F" :> "f" @@ "G" :> "g" @@ "H" :> "h" @@
     "I" :> "i" @@ "J" :> "j" @@ "K" :> "k" @@ "L" :> "l" @@
     "M" :> "m" @@ "N" :> "n" @@ "O" :> "o" @@ "P" :> "p" @@
     "Q" :> "q" @@ "R" :> "r" @@ "S" :> "s" @@ "T" :> "t" @@
     "U" :> "u" @@ "V" :> "v" @@ "W" :> "w" @@ "X" :> "x" @@
     "Y" :> "y" @@ "Z" :> "z")

(* str.lower() on the letters A to Z.                                      *)
Lower(s) ==
    [i \in DOMAIN s |-> IF s[i] \in DOMAIN UpperToLower THEN UpperToLower[s[i]] ELSE s[i]]

(* `any(keyword in name for keyword in keywords)`                          *)
MatchesAny(name, keywords) == \E k \in keywords : Contains(name, k)

Space == <<" ">>

(***************************************************************************)
(* bot.py, extract_shein_verse_products in its three methods.              *)
(***************************************************************************)

(* men_keywords of bot.py:156-160.                                         *)
men_keywords ==
    {<<"m","e","n">>, <<"m","a","n">>, <<"m","a","l","e">>,
     <<"b","o","y","s">>, <<"g","u","y">>, <<"t","r","a","c","k">>,
     <<"c","a","r","g","o">>, <<"j","e","a","n","s">>,
     <<"t","s","h","i","r","t">>, <<"s","h","i","r","t">>,
     <<"h","o","o","d","i","e">>, <<"j","a","c","k","e","t">>,
     <<"s","w","e","a","t","s","h","i","r","t">>, <<"p","a","n","t","s">>,
     <<"s","h","o","r","t","s">>, <<"s","w","e","a","t","e","r">>,
     <<"b","l","a","z","e","r">>,
     <<"s","w","e","a","t","p","a","n","t","s">>,
     <<"j","o","g","g","e","r","s">>, <<"t","r","o","u","s","e","r","s">>,
     <<"p","o","l","o","s","h","i","r","t">>}

(* women_keywords of bot.py:163-166.                                       *)
women_keywords ==
    {<<"w","o","m","e","n">>, <<"w","o","m","a","n">>,
     <<"f","e","m","a","l","e">>, <<"g","i","r","l","s">>,
     <<"l","a","d","i","e","s">>, <<"d","r","e","s","s">>,
     <<"s","k","i","r","t">>, <<"t","o","p">>, <<"b","l","o","u","s","e">>,
     <<"l","e","g","g","i","n","g","s">>,
     <<"j","u","m","p","s","u","i","t">>, <<"r","o","m","p","e","r">>,
     <<"k","i","m","o","n","o">>, <<"c","r","o","p"," ","t","o","p">>,
     <<"p","l","a","y","s","u","i","t">>,
     <<"c","a","r","d","i","g","a","n">>, <<"t","u","n","i","c">>}

(* The url hints of bot.py:176 and bot.py:179.                             *)
MenUrlHints == {<<"/","m","e","n","-">>, <<"-","m","e","n","-">>}

WomenUrlHints == {<<"/","w","o","m","e","n","-">>, <<"-","w","o","m","e","n","-">>}

(* urljoin('https://www.shein.in', href) for an href that is an absolute   *)
(* path.                                                                   *)
BaseUrl == <<"h","t","t","p","s",":","/","/","w","w","w",".","s","h","e","i","n",".","i","n">>

UrlJoin(base, href) == base \o href

(* A classification that tests the women's keywords first.                 *)
GenderOfWomenFirst(product_name, product_url) ==
    LET name_lower == Lower(product_name)
    IN  IF MatchesAny(name_lower, women_keywords) THEN "women"
        ELSE IF MatchesAny(name_lower, men_keywords) THEN "men"
        ELSE IF MatchesAny(product_url, MenUrlHints) THEN "men"
        ELSE "women"

(* The gender of a container's record, bot.py:152-185: the men's keywords  *)
(* on the lowered name, then the women's keywords, then the url hints,     *)
(* then the default.                                                       *)
GenderOf(product_name, product_url) ==
    LET name_lower == Lower(product_name)
    IN  IF MatchesAny(name_lower, men_keywords) THEN "men"
        ELSE IF MatchesAny(name_lower, women_keywords) THEN "women"
        ELSE IF MatchesAny(product_url, MenUrlHints) THEN "men"
        ELSE IF MatchesAny(product_url, WomenUrlHints) THEN "women"
        ELSE "women"

(* The names and hrefs of the containers of the drawn pages.               *)
ItemNames == {<<"C","a","r","g","o"," ","S","k","i","r","t">>, <<"d","r","e","s","s">>, <<"S","h","i","r","t">>,
              <<"w","o","m","e","n">>, <<"b","a","g">>}

ItemHrefs == {<<"/","m","e","n","-","x">>, <<"/","w","o","m","e","n","-","x">>, <<"/","p","-","1">>}

(* A container without a link is skipped: `if not link: continue`.         *)
NoLinkItem == [link |-> FALSE, name |-> <<"b","a","g">>, href |-> <<"/","p","-","1">>]

Items ==
    {[link |-> TRUE, name |-> n, href |-> h] : n \in ItemNames, h \in ItemHrefs}
        \cup {NoLinkItem}

(* cat_name of the items of an embedded goodsList.                         *)
CatMen == <<"m","e","n">>
CatWomen == <<"w","o","m","e","n">>
CatKids == <<"k","i","d","s">>

(* A script whose text holds 'goodsList': the cat_name of the items the    *)
(* loop appends, and whether the try then raises (json.loads on text that  *)
(* is no JSON, an item that is no dict) instead of reaching its break.     *)
(* lost holds the cat_name of the well-formed items that follow the item   *)
(* on which it raises.                                                     *)
(* names holds the goods_name of the items of cats, empty unless given.    *)
Script(cats, raises) ==
    [cats |-> cats, raises |-> raises, lost |-> <<>>,
     names |-> [k \in DOMAIN cats |-> <<>>]]

(* A goodsList with an item that is no dict between well-formed items.     *)
ScriptFailingAt(cats, lost) ==
    [cats |-> cats, raises |-> TRUE, lost |-> lost,
     names |-> [k \in DOMAIN cats |-> <<>>]]

(* A goodsList whose items carry the given goods_name.                     *)
ScriptNamed(cats, names) ==
    [cats |-> cats, raises |-> FALSE, lost |-> <<>>, names |-> names]

(* A name of LongName characters.                                          *)
LongNameText == [k \in 1..LongName |-> "a"]

(* A men's goodsList of LongPage items.                                    *)
LongScript == Script([k \in 1..LongPage |-> CatMen], FALSE)

ScriptLists ==
    { <<>>,
      <<Script(<<>>, FALSE)>>,
      <<Script(<<CatMen>>, FALSE)>>,
      <<Script(<<CatWomen, CatKids>>, FALSE)>>,
      <<Script(<<CatKids>>, TRUE)>>,
      <<Script(<<CatKids>>, TRUE), Script(<<CatMen>>, FALSE)>>,
      <<Script(<<>>, TRUE), Script(<<CatMen>>, FALSE)>>,
      <<Script(<<>>, FALSE), Script(<<CatMen>>, FALSE)>>,
      <<ScriptFailingAt(<<CatMen>>, <<CatMen, CatWomen>>)>> }

(* The html given to extract_shein_verse_products: the items of the first  *)
(* selector that selects any, the scripts that hold 'goodsList', and the   *)
(* number of matches of product_pattern.                                   *)
ShortPages ==
    [containers : UNION {[1..n -> Items] : n \in 0..MaxItems},
     scripts : ScriptLists,
     matches : 0..MaxMatches]

(* Pages of LongPage elements: containers, items of one goodsList, or      *)
(* matches of product_pattern.                                             *)
LongPages ==
    { [containers |-> [k \in 1..LongPage |-> it], scripts |-> <<>>, matches |-> 0] :
          it \in {i \in Items : i.name = <<"S","h","i","r","t">>} }
      \cup { [containers |-> <<>>, scripts |-> <<LongScript>>, matches |-> 0],
             [containers |-> <<>>, scripts |-> <<>>, matches |-> LongPage] }

(* Pages with one product of a long name: a container, or an item of a     *)
(* goodsList.                                                              *)
LongNamePages ==
    { [containers |-> <<[link |-> TRUE, name |-> LongNameText, href |-> <<"/","p","-","1">>]>>,
       scripts |-> <<>>, matches |-> 0],
      [containers |-> <<>>, scripts |-> <<ScriptNamed(<<CatMen>>, <<LongNameText>>)>>,
       matches |-> 0] }

HtmlPages == ShortPages \cup LongPages \cup LongNamePages

(* s[:n] *)
Slice(s, n) == IF Len(s) > n THEN SubSeq(s, 1, n) ELSE s

NoText == <<>>

(* METHOD 1, bot.py:117-204.                                               *)
RECURSIVE SelectorProducts(_)
SelectorProducts(items) ==
    IF items = <<>> THEN <<>>
    ELSE LET it == Head(items)
             product_url == UrlJoin(BaseUrl, it.href)
         IN  (IF it.link
              THEN <<[name |-> Slice(it.name, NameCap), url |-> product_url, cat |-> NoText,
                      gender |-> GenderOf(it.name, product_url),
                      source |-> "shein_verse"]>>
              ELSE <<>>) \o SelectorProducts(Tail(items))

(* `if 'men' in cat_name` of bot.py:228-234.                               *)
GenderOfCat(cat_name) ==
    IF Contains(Lower(cat_name), CatMen) THEN "men" ELSE "women"

(* METHOD 2, bot.py:210-253: the scripts in order, up to the first whose   *)
(* try reaches its break.                                                  *)
(* The length of s[:cap].                                                  *)
LenCapped(n, cap) == IF n > cap THEN cap ELSE n

RECURSIVE JsonProducts(_)
JsonProducts(scripts) ==
    IF scripts = <<>> THEN <<>>
    ELSE LET sc == Head(scripts)
             got == [k \in DOMAIN sc.cats |->
                       [name |-> sc.names[k], url |-> NoText, cat |-> sc.cats[k],
                        gender |-> GenderOfCat(sc.cats[k]),
                        source |-> "shein_verse_json"]]
         IN  IF sc.raises /\ Len(sc.cats) < JsonCap
             THEN got \o JsonProducts(Tail(scripts))
             ELSE SubSeq(got, 1, LenCapped(Len(got), JsonCap))

(* METHOD 3, bot.py:263-294: draws[k] is `random.random() < 0.3` of the    *)
(* k-th match.                                                             *)
RegexProducts(n, draws) ==
    [k \in 1..LenCapped(n, RegexCap) |-> [name |-> NoText, url |-> NoText, cat |-> NoText,
                     gender |-> IF draws[k] THEN "men" ELSE "women",
                     source |-> "regex_fallback"]]

(* An extraction that runs every method.                                   *)
FallbackAlways(prods) == TRUE

(* `if not products` of bot.py:207 and bot.py:256.                         *)
NeedsFallback(prods) == prods = <<>>

(* extract_shein_verse_products(html), with the random draws it makes.     *)
(* Besides the three values it returns, the history of the call: the       *)
(* methods that ran, in order, and the records each of them appended.      *)
ExtractMethods(html, draws) ==
    LET p1 == SelectorProducts(html.containers)
        run2 == NeedsFallback(p1)
        p2 == IF run2 THEN p1 \o JsonProducts(html.scripts) ELSE p1
        run3 == NeedsFallback(p2)
        p3 == IF run3 THEN p2 \o RegexProducts(html.matches, draws) ELSE p2
    IN  [products |-> p3,
         men_count |-> CountGender(p3, "men"),
         women_count |-> CountGender(p3, "women"),
         ran |-> <<"selectors">> \o (IF run2 THEN <<"json">> ELSE <<>>)
                                 \o (IF run3 THEN <<"regex">> ELSE <<>>),
         appended |-> <<Len(p1), Len(p2) - Len(p1), Len(p3) - Len(p2)>>]

(* The draws of n calls of random.random(): every outcome for up to        *)
(* MaxMatches calls, and for more calls the two in which all draws fall    *)
(* on the same side of 0.3.                                                *)
DrawsFor(n) ==
    IF n <= MaxMatches THEN [1..n -> BOOLEAN]
    ELSE {[k \in 1..n |-> b] : b \in BOOLEAN}

(* The draws of random.random() an invocation on html makes: one for each  *)
(* match when the regex method runs, none otherwise.                       *)
RandomDraws(html) ==
    LET p1 == SelectorProducts(html.containers)
        p2 == IF NeedsFallback(p1) THEN p1 \o JsonProducts(html.scripts) ELSE p1
    IN  IF NeedsFallback(p2) THEN DrawsFor(LenCapped(html.matches, RegexCap)) ELSE {<<>>}

(* extract_shein_verse_products is called on the page.                     *)
ExtractCall ==
    /\ prog = "extract"
    /\ Len(runs) < MaxRuns
    /\ \E draws \in RandomDraws(page) :
         runs' = Append(runs, ExtractMethods(page, draws))
    /\ UNCHANGED <<envVars, schedVars, clientVars, page, item, verdict, identVars, sizeVars,
                   delivery>>

(***************************************************************************)
(* shein_client.py, _is_men_product.                                       *)
(***************************************************************************)

(* women_keywords of shein_client.py:359.                                  *)
ClientWomenKeywords ==
    {<<"w","o","m","e","n">>, <<"w","o","m","a","n">>,
     <<"f","e","m","a","l","e">>, <<"g","i","r","l">>, <<"l","a","d","y">>,
     <<"l","a","d","i","e","s">>, <<"d","r","e","s","s">>,
     <<"s","k","i","r","t">>, <<"b","r","a">>}

(* men_keywords of shein_client.py:365.                                    *)
ClientMenKeywords ==
    {<<"m","e","n">>, <<"m","a","n">>, <<"m","a","l","e">>, <<"b","o","y">>,
     <<"g","u","y">>, <<"u","n","i","s","e","x">>}

(* _is_men_product(product): the women's keywords exclude first, then the  *)
(* men's keywords include, then the default.                               *)
IsMenProduct(name) ==
    LET lowered == Lower(name)
    IN  IF MatchesAny(lowered, ClientWomenKeywords) THEN FALSE
        ELSE IF MatchesAny(lowered, ClientMenKeywords) THEN TRUE
        ELSE TRUE

(* The words of the product names drawn for _is_men_product.               *)
Words == {<<"M","e","n">>, <<"g","u","y">>, <<"d","r","e","s","s">>,
          <<"b","o","y">>, <<"s","k","i","r","t">>, <<"b","a","g">>,
          <<"u","n","i","s","e","x">>, <<"l","a","d","y">>}

(* The names of one to MaxWords words, separated by spaces.                *)
RECURSIVE NamesOf(_)
NamesOf(n) ==
    IF n = 1 THEN Words
    ELSE {w \o Space \o rest : w \in Words, rest \in NamesOf(n - 1)}

ProductNames == UNION {NamesOf(n) : n \in 1..MaxWords}

(* _is_men_product is called on the product.                               *)
IsMenCall ==
    /\ prog = "classify"
    /\ verdict = "none"
    /\ verdict' = IF IsMenProduct(item) THEN "True" ELSE "False"
    /\ UNCHANGED <<envVars, schedVars, clientVars, page, runs, item, identVars, sizeVars,
                   delivery>>

(***************************************************************************)
(* shein_client.py, _extract_product_info: the id of the product dict.     *)
(***************************************************************************)

(* What element.get(attribute) gives: None, the empty string, or a value.  *)
NoAttr == "None"

ProductIdAttrs == {NoAttr, "", "101"}

GoodsIdAttrs == {NoAttr, "", "202"}

Elements == [product_id : ProductIdAttrs, goods_id : GoodsIdAttrs]

(* The truth value Python's `or` tests.                                    *)
Truthy(a) == a \notin {NoAttr, ""}

(* The values of random.randint(1000000, 9999999) the model draws: both    *)
(* ends and one value between them.                                        *)
RandomIds == {RandomIdMin, 5550123, RandomIdMax}

(* str() of the drawn integers.                                            *)
StrOf(n) ==
    CASE n = RandomIdMin -> "1000000"
      [] n = 5550123 -> "5550123"
      [] n = RandomIdMax -> "9999999"

(* `element.get('data-product-id') or element.get('data-goods-id') or      *)
(* str(random.randint(1000000, 9999999))`                                  *)
ExtractProductId(e, draw) ==
    IF Truthy(e.product_id) THEN e.product_id
    ELSE IF Truthy(e.goods_id) THEN e.goods_id
    ELSE StrOf(draw)

(* `or` evaluates its last operand only when the first two are falsy: the  *)
(* draw is made then and only then.                                        *)
IdDraws(e) ==
    IF Truthy(e.product_id) \/ Truthy(e.goods_id) THEN {RandomIdMin} ELSE RandomIds

NoElement == [product_id |-> NoAttr, goods_id |-> NoAttr]

InitIdent ==
    /\ element = NoElement
    /\ ids = <<>>

(* _extract_product_info is called on the element.                         *)
ExtractInfoCall ==
    /\ prog = "identify"
    /\ Len(ids) < MaxExtractions
    /\ \E draw \in IdDraws(element) :
         ids' = Append(ids, ExtractProductId(element, draw))
    /\ UNCHANGED <<envVars, schedVars, clientVars, page, runs, item, verdict,
                   element, sizeVars, delivery>>

(***************************************************************************)
(* shein_client.py, _parse_sizes and the fields get_product_details        *)
(* computes from it.                                                       *)
(***************************************************************************)

(* A size element of the product page: its text, whether one of the four   *)
(* tests of is_disabled holds for it, and what                             *)
(* `elem.get('data-stock') or elem.get('data-quantity')` gives.            *)
SizeLabels == {"S", "M"}

StockAttrs == {NoAttr, "0", "3"}

SizeElems == [text : SizeLabels, disabled : BOOLEAN, stock_attr : StockAttrs]

DetailPages == UNION {[1..n -> SizeElems] : n \in 0..MaxSizeElems}

(* int() of the stock attributes drawn.                                    *)
IntOf(a) == IF a = "3" THEN 3 ELSE 0

(* `int(stock_attr) if stock_attr and stock_attr.isdigit() else 1`         *)
QuantityOf(stock_attr) == IF Truthy(stock_attr) THEN IntOf(stock_attr) ELSE 1

(* `sizes[size_text] = quantity` on a dict.                                *)
DictSet(d, k, v) == [x \in DOMAIN d \cup {k} |-> IF x = k THEN v ELSE d[x]]

(* The for loop of _parse_sizes over the size elements.                    *)
RECURSIVE SizesLoop(_, _)
SizesLoop(elems, d) ==
    IF elems = <<>> THEN d
    ELSE LET elem == Head(elems)
         IN  SizesLoop(Tail(elems),
                       IF ~elem.disabled
                       THEN DictSet(d, elem.text, QuantityOf(elem.stock_attr))
                       ELSE d)

(* The draws of the default sizes, shein_client.py:432-437: of each        *)
(* random.randint(1, n) the model draws both ends.                         *)
DefaultSizeDraws == [S : {1, 5}, M : {1, 8}, L : {1, 5}, XL : {1, 3}]

(* The dict of the default sizes.                                          *)
DefaultSizes(draw) ==
    [x \in {"S", "M", "L", "XL"} |->
        CASE x = "S" -> draw.S [] x = "M" -> draw.M
          [] x = "L" -> draw.L [] x = "XL" -> draw.XL]

(* _parse_sizes(html): `if not sizes` replaces an empty dict by the        *)
(* default sizes.                                                          *)
ParseSizes(elems, draw) ==
    LET parsed == SizesLoop(elems, EmptyMap)
    IN  IF DOMAIN parsed = {} THEN DefaultSizes(draw) ELSE parsed

(* The draws an invocation makes: those of the default sizes when the loop *)
(* left the dict empty, none otherwise.                                    *)
SizeDraws(elems) ==
    IF DOMAIN SizesLoop(elems, EmptyMap) = {} THEN DefaultSizeDraws
    ELSE {[S |-> 1, M |-> 1, L |-> 1, XL |-> 1]}

(* `sum(sizes.values())`                                                   *)
RECURSIVE SumOver(_, _)
SumOver(d, keys) ==
    IF keys = {} THEN 0
    ELSE LET k == CHOOSE x \in keys : TRUE
         IN  d[k] + SumOver(d, keys \ {k})

(* The fields get_product_details sets on the product after _parse_sizes.  *)
Details(d) ==
    [returned |-> TRUE, sizes |-> d,
     available_sizes |-> {x \in DOMAIN d : d[x] > 0},
     total_stock |-> SumOver(d, DOMAIN d)]

NoDetails == [returned |-> FALSE, sizes |-> EmptyMap, available_sizes |-> {},
              total_stock |-> 0]

InitSizing ==
    /\ detailPage = <<>>
    /\ sizes = NoDetails

(* get_product_details has the content of the product page: it parses the  *)
(* sizes and sets the fields.                                              *)
ParseSizesCall ==
    /\ prog = "sizes"
    /\ ~sizes.returned
    /\ \E draw \in SizeDraws(detailPage) :
         sizes' = Details(ParseSizes(detailPage, draw))
    /\ UNCHANGED <<envVars, schedVars, clientVars, page, runs, item, verdict,
                   identVars, detailPage, delivery>>

(***************************************************************************)
(* telegram_manager.py: one call of TelegramManager.send_product_alert,    *)
(* with the calls of send_message and send_photo it makes.                 *)
(***************************************************************************)

(* product['name'] as the alert reads it: a string, or the None that       *)
(* item.get('goods_name', 'Unknown') gives for a null goods_name.          *)
NameKinds == {"str", "none"}

(* The products given to the call; '' and [] are the falsy values.         *)
AlertProducts ==
    [name : NameKinds, image : {"", "img"}, size_details : {"", "details"},
     available_sizes : {<<>>, <<"M">>}]

(* size_details, else a bullet line per available size, else the default.  *)
SizeInfo(product) ==
    IF product.size_details # "" THEN <<product.size_details>>
    ELSE IF product.available_sizes # <<>>
         THEN [k \in DOMAIN product.available_sizes |->
                   <<"bullet", product.available_sizes[k]>>]
         ELSE <<"Check product page for sizes">>

AlertType(is_new) == IF is_new THEN "NEW PRODUCT" ELSE "RESTOCK"

(* How a POST ends: status 200, another status, or an exception.           *)
HttpOutcomes == {"200", "status", "exception"}

InitDelivery ==
    delivery = [pc |-> "start", token |-> "set", chat_id |-> "set",
                product |-> [name |-> "str", image |-> "", size_details |-> "",
                             available_sizes |-> <<>>],
                is_new |-> TRUE, requests |-> <<>>, success |-> FALSE]

(* `success = await self.send_message(message)` has returned: the photo    *)
(* follows `if success and product.get('image')`, else `return success`.   *)
AfterMessage(d, success, requests) ==
    [d EXCEPT !.requests = requests, !.success = success,
              !.pc = IF success /\ d.product.image # "" THEN "photo" ELSE "returned"]

(* send_product_alert up to the return of send_message: the message is     *)
(* formatted; send_message returns False before any request when the token *)
(* or the chat id is empty, else posts and returns status == 200, False on *)
(* an exception.                                                           *)
SendProductAlert ==
    /\ prog = "alert"
    /\ delivery.pc = "start"
    /\ LET d == delivery
           message == [alert_type |-> AlertType(d.is_new),
                       size_info |-> SizeInfo(d.product)]
       IN  IF d.token = "" \/ d.chat_id = ""
           THEN delivery' = AfterMessage(d, FALSE, d.requests)
           ELSE \E o \in HttpOutcomes :
                  delivery' = AfterMessage(d, o = "200",
                                  Append(d.requests, [op |-> "sendMessage",
                                                      body |-> message,
                                                      outcome |-> o]))
    /\ UNCHANGED <<envVars, schedVars, clientVars, page, runs, item, verdict,
                   identVars, sizeVars>>

(* `await self.send_photo(product['image'], product['name'][:50])` and     *)
(* `return success`: slicing None raises TypeError before send_photo is    *)
(* entered; send_photo posts and returns status == 200, False on an        *)
(* exception, and its value is dropped.                                    *)
SendPhoto ==
    /\ prog = "alert"
    /\ delivery.pc = "photo"
    /\ IF delivery.product.name = "none"
       THEN delivery' = [delivery EXCEPT !.pc = "raised"]
       ELSE \E o \in HttpOutcomes :
              delivery' = [delivery EXCEPT
                              !.requests = Append(@, [op |-> "sendPhoto",
                                                      body |-> delivery.product.image,
                                                      outcome |-> o]),
                              !.pc = "returned"]
    /\ UNCHANGED <<envVars, schedVars, clientVars, page, runs, item, verdict,
                   identVars, sizeVars>>

(* No pure function has been applied.                                      *)
InitPure ==
    /\ page = [containers |-> <<>>, scripts |-> <<>>, matches |-> 0]
    /\ runs = <<>>
    /\ item = NoText
    /\ verdict = "none"
    /\ InitIdent
    /\ InitSizing
    /\ InitDelivery

(***************************************************************************)
(* shein_client.py: one call of SheinClient.get_shein_verse_men, with the  *)
(* calls of _make_request it leads to.  Time is counted in whole seconds   *)
(* and only as elapsed time, up to MaxAge: a moment is the number of       *)
(* seconds elapsed since it, NoTime when it never was.                     *)
(***************************************************************************)
NoTime == <<>>

Capped(x) == IF x > MaxAge THEN MaxAge ELSE x

(* d more seconds have elapsed since the moment t.                         *)
Elapse(t, d) == IF t = NoTime THEN NoTime ELSE <<Capped(t[1] + d)>>

(* `strategies` of get_shein_verse_men, in the order of the list.          *)
Strategies == <<"api_direct", "html_scrape", "mobile_site">>

(* `if self.last_request_time: ... if elapsed < 2: sleep(2 - elapsed)`     *)
RateLimitWait(lrt) ==
    IF lrt # NoTime /\ lrt[1] < MinSpacing THEN MinSpacing - lrt[1] ELSE 0

(* A _make_request without its random delay.                               *)
NoRandomDelay == {0}

(* Config.get_random_delay(): uniform(RANDOM_DELAY_MIN, RANDOM_DELAY_MAX). *)
RandomDelays == RANDOM_DELAY_MIN..RANDOM_DELAY_MAX

(* How a request ends: with a response of some status, or with an          *)
(* exception (aiohttp.ClientError, asyncio.TimeoutError, any other).       *)
RequestEnds == {"200", "403", "429", "other", "exception"}

(* The seconds _make_request sleeps after the response: _handle_blocked    *)
(* waits randint(30, 120) on a 403, and a 429 is followed by sleep(30).    *)
PostWaits(ends) ==
    IF ends = "403" THEN BlockedWaitMin..BlockedWaitMax
    ELSE IF ends = "429" THEN {RateLimitedSleep}
    ELSE {0}

(* `await asyncio.sleep(random.uniform(3, 7))` of get_product_details.     *)
DetailDelays == DetailDelayMin..DetailDelayMax

(* A get_shein_verse_men without the try of its for loop.                  *)
StrategyLoopPropagates == FALSE

(* `except Exception as e: ... await asyncio.sleep(5); continue`           *)
StrategyLoopCatches == TRUE

(* What a strategy makes of the content of a 200 response: a list of       *)
(* products, empty when nothing matched or when the JSON could not be      *)
(* parsed, or an exception.  api_direct parses inside a try of its own;    *)
(* _parse_html_products builds the soup and selects outside any try.       *)
ParseResults(s) ==
    {[kind |-> "list", n |-> k] : k \in 0..MaxProducts} \cup
    (IF Strategies[s] = "api_direct" THEN {} ELSE {[kind |-> "raised", n |-> 0]})

NoResult == [returned |-> FALSE, products |-> <<>>]

InitClient ==
    /\ cpc = "idle"
    /\ strat = 0
    /\ found = <<>>
    /\ di = 0
    /\ detailed = <<>>
    /\ result = NoResult
    /\ session = 1
    /\ last_request_time = NoTime
    /\ invoked = <<>>
    /\ stratOutcome = [s \in DOMAIN Strategies |-> "none"]
    /\ stratFailure = [s \in DOMAIN Strategies |-> "none"]
    /\ attempts = [s \in DOMAIN Strategies |-> 0]
    /\ lastReq = "none"
    /\ sinceIssue = NoTime
    /\ issueGap = NoTime

(* get_shein_verse_men is called: the first strategy is invoked and        *)
(* reaches its _make_request.                                              *)
ClientStart ==
    /\ prog = "client"
    /\ cpc = "idle"
    /\ cpc' = "strategy_delay"
    /\ strat' = 1
    /\ invoked' = <<Strategies[1]>>
    /\ UNCHANGED <<envVars, schedVars, pureVars, found, di, detailed, result, session,
                   last_request_time, stratOutcome, stratFailure, attempts,
                   lastReq, sinceIssue, issueGap>>

(* _make_request up to the request: the rate-limit sleep, the random       *)
(* delay, and the request is issued.                                       *)
RequestIssue ==
    /\ prog = "client"
    /\ cpc \in {"strategy_delay", "detail_delay"}
    /\ \E delay \in RandomDelays :
         LET waited == RateLimitWait(last_request_time) + delay
         IN  /\ issueGap' = Elapse(sinceIssue, waited)
             /\ last_request_time' = Elapse(last_request_time, waited)
    /\ sinceIssue' = <<0>>
    /\ cpc' = IF cpc = "strategy_delay" THEN "strategy_request" ELSE "detail_request"
    /\ attempts' = IF cpc = "strategy_delay"
                   THEN [attempts EXCEPT ![strat] = @ + 1] ELSE attempts
    /\ UNCHANGED <<envVars, schedVars, pureVars, strat, found, di, detailed, result,
                   session, invoked, stratOutcome, stratFailure, lastReq>>

(* The request ends after latency seconds, and _make_request returns after *)
(* w more: its except branches return None as the other statuses do.  A    *)
(* response sets last_request_time; an exception leaves it.  A 403 closes  *)
(* the session and creates a new one.                                      *)
RequestDone(ends, latency, w) ==
    /\ lastReq' = ends
    /\ sinceIssue' = Elapse(sinceIssue, latency + w)
    /\ last_request_time' = IF ends = "exception"
                            THEN Elapse(last_request_time, latency)
                            ELSE <<Capped(w)>>
    /\ session' = IF ends = "403" THEN session + 1 ELSE session
    /\ UNCHANGED issueGap

(* The for loop of get_shein_verse_men goes on after a strategy that gave  *)
(* nothing: the next strategy is invoked, or `return []`.                  *)
NextStrategy ==
    IF strat < Len(Strategies)
    THEN /\ strat' = strat + 1
         /\ invoked' = Append(invoked, Strategies[strat + 1])
         /\ cpc' = "strategy_delay"
         /\ UNCHANGED result
    ELSE /\ cpc' = "returned"
         /\ result' = [returned |-> TRUE, products |-> <<>>]
         /\ UNCHANGED <<strat, invoked>>

(* An exception reaches the try of the for loop.                           *)
Raised ==
    /\ cpc' = IF StrategyLoopCatches THEN "handler_sleep" ELSE "propagated"
    /\ UNCHANGED <<strat, invoked, result>>

(* The request of the strategy ends and the strategy returns or raises.    *)
StrategyResponse ==
    /\ prog = "client"
    /\ cpc = "strategy_request"
    /\ \E ends \in RequestEnds, latency \in 0..MaxLatency :
         \E w \in PostWaits(ends) :
           /\ RequestDone(ends, latency, w)
           /\ IF ends = "200"
              THEN \E parsed \in ParseResults(strat) :
                     /\ UNCHANGED stratFailure
                     /\ IF parsed.kind = "raised"
                        THEN /\ stratOutcome' = [stratOutcome EXCEPT ![strat] = "raised"]
                             /\ Raised
                             /\ UNCHANGED <<found, di, detailed>>
                        ELSE IF parsed.n > 0
                        THEN /\ stratOutcome' = [stratOutcome EXCEPT ![strat] = "nonempty"]
                             /\ found' = [k \in 1..parsed.n |->
                                            [src |-> Strategies[strat], sizes |-> FALSE]]
                             /\ di' = 1
                             /\ detailed' = <<>>
                             /\ cpc' = "detail_sleep"
                             /\ UNCHANGED <<strat, invoked, result>>
                        ELSE /\ stratOutcome' = [stratOutcome EXCEPT ![strat] = "empty"]
                             /\ NextStrategy
                             /\ UNCHANGED <<found, di, detailed>>
              ELSE /\ stratFailure' = [stratFailure EXCEPT ![strat] = ends]
                   /\ stratOutcome' = [stratOutcome EXCEPT ![strat] = "empty"]
                   /\ NextStrategy
                   /\ UNCHANGED <<found, di, detailed>>
    /\ UNCHANGED <<envVars, schedVars, pureVars, attempts>>

(* `await asyncio.sleep(5)` of the except branch ends: `continue`.         *)
HandlerSleepDone ==
    /\ prog = "client"
    /\ cpc = "handler_sleep"
    /\ sinceIssue' = Elapse(sinceIssue, StrategyFailSleep)
    /\ last_request_time' = Elapse(last_request_time, StrategyFailSleep)
    /\ NextStrategy
    /\ UNCHANGED <<envVars, schedVars, pureVars, found, di, detailed, session,
                   stratOutcome, stratFailure, attempts, lastReq, issueGap>>

(* `detailed_products.append(detailed)`, and the loop over products goes   *)
(* on or `return detailed_products`.                                       *)
AppendDetailed(product) ==
    /\ detailed' = Append(detailed, product)
    /\ IF di = Len(found)
       THEN /\ cpc' = "returned"
            /\ result' = [returned |-> TRUE, products |-> Append(detailed, product)]
            /\ UNCHANGED di
       ELSE /\ cpc' = "detail_sleep"
            /\ di' = di + 1
            /\ UNCHANGED result
    /\ UNCHANGED <<strat, invoked>>

(* get_product_details of a product without url returns it as it is; only  *)
(* the html strategies build products whose url may be empty.              *)
DetailSkipped ==
    /\ prog = "client"
    /\ cpc = "detail_sleep"
    /\ found[di].src # "api_direct"
    /\ AppendDetailed(found[di])
    /\ UNCHANGED <<envVars, schedVars, pureVars, found, session, last_request_time,
                   stratOutcome, stratFailure, attempts, lastReq, sinceIssue,
                   issueGap>>

(* The sleep of get_product_details ends and its _make_request begins.     *)
DetailSleepDone ==
    /\ prog = "client"
    /\ cpc = "detail_sleep"
    /\ \E d \in DetailDelays :
         /\ sinceIssue' = Elapse(sinceIssue, d)
         /\ last_request_time' = Elapse(last_request_time, d)
    /\ cpc' = "detail_delay"
    /\ UNCHANGED <<envVars, schedVars, pureVars, strat, found, di, detailed, result,
                   session, invoked, stratOutcome, stratFailure, attempts, lastReq,
                   issueGap>>

(* The request of get_product_details ends.  Without content the product   *)
(* is returned as it is; with content _parse_sizes fills in the sizes, or  *)
(* raises: `int(stock_attr)` after `stock_attr.isdigit()` raises           *)
(* ValueError on a digit character that is no decimal digit.               *)
DetailResponse ==
    /\ prog = "client"
    /\ cpc = "detail_request"
    /\ \E ends \in RequestEnds, latency \in 0..MaxLatency :
         \E w \in PostWaits(ends) :
           /\ RequestDone(ends, latency, w)
           /\ IF ends = "200"
              THEN \E sizesParsed \in BOOLEAN :
                     IF sizesParsed
                     THEN AppendDetailed([found[di] EXCEPT !.sizes = TRUE])
                     ELSE /\ Raised
                          /\ UNCHANGED <<di, detailed>>
              ELSE AppendDetailed(found[di])
    /\ UNCHANGED <<envVars, schedVars, pureVars, found, stratOutcome, stratFailure,
                   attempts>>

NextClient ==
    \/ ClientStart
    \/ RequestIssue
    \/ StrategyResponse
    \/ HandlerSleepDone
    \/ DetailSkipped
    \/ DetailSleepDone
    \/ DetailResponse

(* Either program is started: bot.py or main.py.                           *)
Init ==
    /\ prog \in BotProgs \cup {"main"}
    /\ credentials \in (IF prog = "bot" THEN {"set", "missing"} ELSE {"set"})
    /\ cadence = "first"
    /\ spc = "construct"
    /\ watchStock = FALSE
    /\ InitBot
    /\ InitMain
    /\ InitClient
    /\ InitPure

Next == BotNext \/ MainNext

Spec == Init /\ [][Next]_vars

(***************************************************************************)
(* The same program, with the stock that the pages show kept in the        *)
(* history.                                                                *)
(***************************************************************************)
InitStock ==
    /\ prog = "bot"
    /\ credentials = "set"
    /\ cadence = "first"
    /\ spc = "construct"
    /\ watchStock = TRUE
    /\ InitBot
    /\ InitMain
    /\ InitClient
    /\ InitPure

SpecStock == InitStock /\ [][BotNext]_vars

(***************************************************************************)
(* Two check_shein_verse_stock coroutines of one bot instance running on   *)
(* the same event loop, interleaved at their awaits.                       *)
(***************************************************************************)
InitOverlap ==
    /\ prog = "overlap"
    /\ credentials = "set"
    /\ cadence = "first"
    /\ spc = "none"
    /\ watchStock = FALSE
    /\ InitBot
    /\ InitMain
    /\ InitClient
    /\ InitPure

OverlapStart(t) ==
    /\ prog = "overlap"
    /\ CheckStart(t)
    /\ UNCHANGED <<libVars, envVars, cadence, spc, loopVars, mainVars>>

OverlapReturn(t) ==
    /\ prog = "overlap"
    /\ pc[t] \in {"returned", "raised"}
    /\ TaskEnds(t)
    /\ UNCHANGED <<libVars, envVars, cadence, spc, loopVars, botVars, mainVars>>

NextOverlap ==
    \E t \in Tasks : OverlapStart(t) \/ OverlapReturn(t) \/ Task(t)

SpecOverlap == InitOverlap /\ [][NextOverlap]_vars

(***************************************************************************)
(* One call of get_shein_verse_men on a SheinClient whose session was      *)
(* created by __aenter__.                                                  *)
(***************************************************************************)
InitIdle ==
    /\ credentials = "set"
    /\ cadence = "first"
    /\ spc = "none"
    /\ watchStock = FALSE
    /\ InitBot
    /\ InitMain

InitClientCall ==
    /\ prog = "client"
    /\ InitIdle
    /\ InitClient
    /\ InitPure

SpecClient == InitClientCall /\ [][NextClient]_vars

(***************************************************************************)
(* extract_shein_verse_products applied, up to MaxRuns times, to one page  *)
(* drawn from HtmlPages.                                                   *)
(***************************************************************************)
InitExtract ==
    /\ prog = "extract"
    /\ InitIdle
    /\ InitClient
    /\ page \in HtmlPages
    /\ runs = <<>>
    /\ item = NoText
    /\ verdict = "none"
    /\ InitIdent
    /\ InitSizing
    /\ InitDelivery

SpecExtract == InitExtract /\ [][ExtractCall]_vars

(***************************************************************************)
(* _is_men_product applied to a product whose name is drawn from           *)
(* ProductNames.                                                           *)
(***************************************************************************)
InitClassify ==
    /\ prog = "classify"
    /\ InitIdle
    /\ InitClient
    /\ page = [containers |-> <<>>, scripts |-> <<>>, matches |-> 0]
    /\ runs = <<>>
    /\ item \in ProductNames
    /\ verdict = "none"
    /\ InitIdent
    /\ InitSizing
    /\ InitDelivery

SpecClassify == InitClassify /\ [][IsMenCall]_vars

(***************************************************************************)
(* _extract_product_info applied, up to MaxExtractions times, to one       *)
(* element drawn from Elements.                                            *)
(***************************************************************************)
InitIdentify ==
    /\ prog = "identify"
    /\ InitIdle
    /\ InitClient
    /\ page = [containers |-> <<>>, scripts |-> <<>>, matches |-> 0]
    /\ runs = <<>>
    /\ item = NoText
    /\ verdict = "none"
    /\ element \in Elements
    /\ ids = <<>>
    /\ InitSizing
    /\ InitDelivery

SpecIdentify == InitIdentify /\ [][ExtractInfoCall]_vars

(***************************************************************************)
(* _parse_sizes applied to one product page drawn from DetailPages.        *)
(***************************************************************************)
InitSizes ==
    /\ prog = "sizes"
    /\ InitIdle
    /\ InitClient
    /\ page = [containers |-> <<>>, scripts |-> <<>>, matches |-> 0]
    /\ runs = <<>>
    /\ item = NoText
    /\ verdict = "none"
    /\ InitIdent
    /\ detailPage \in DetailPages
    /\ sizes = NoDetails
    /\ InitDelivery

SpecSizes == InitSizes /\ [][ParseSizesCall]_vars

(***************************************************************************)
(* send_product_alert called once, for each product, alert type and        *)
(* configuration of the credentials.                                       *)
(***************************************************************************)
InitAlert ==
    /\ prog = "alert"
    /\ InitIdle
    /\ InitClient
    /\ page = [containers |-> <<>>, scripts |-> <<>>, matches |-> 0]
    /\ runs = <<>>
    /\ item = NoText
    /\ verdict = "none"
    /\ InitIdent
    /\ InitSizing
    /\ \E token \in {"", "set"}, chat_id \in {"", "set"}, product \in AlertProducts,
          is_new \in BOOLEAN :
         delivery = [pc |-> "start", token |-> token, chat_id |-> chat_id,
                     product |-> product, is_new |-> is_new,
                     requests |-> <<>>, success |-> FALSE]

NextAlert == SendProductAlert \/ SendPhoto

SpecAlert == InitAlert /\ [][NextAlert]_vars

(***************************************************************************)
(* Properties.                                                             *)
(***************************************************************************)

(* The calls of send_telegram_alert of task t's cycle made for id i.       *)
AlertsFor(t, i) == {k \in DOMAIN alertLog[t] : alertLog[t][k].id = i}

(* Task t is inside a call of send_telegram_alert made for id i.           *)
Alerting(t, i) == pc[t] \in {"photo", "text"} /\ products[t][idx[t]].id = i

(* A completed call delivered the alert, by photo or by text.              *)
Delivered(e) == e.photo = "ok" \/ e.text = "ok"

(* Task t's cycle has run its for loop over an extracted page to the end.  *)
CycleOver(t) == pc[t] = "returned" /\ fetched[t] \in {"page", "error"}

WomenIds(prods) == {prods[i].id : i \in {j \in DOMAIN prods : prods[j].gender = "women"}}

(* C1: over the non-overlapping cycles of one bot instance, at most one    *)
(* NEW alert is attempted per men's product id.                            *)
C1_NewAlertAtMostOnce ==
    \A i \in Ids : newAlertCount[i] <= 1

(* A later cycle has passed over a men's record whose id an earlier cycle  *)
(* alerted.                                                                *)
C1_Witness ==
    /\ prog = "bot"
    /\ CycleOver(1)
    /\ \E k \in DOMAIN products[1] :
         /\ products[1][k].gender = "men"
         /\ products[1][k].id \in seenAtStart[1]
         /\ newAlertCount[products[1][k].id] = 1

(* C2: of two overlapping cycles that observe the same unseen men's id, at *)
(* most one alerts it.                                                     *)
C2_OneAlertWhenOverlapping ==
    \A i \in Ids :
        ~ /\ AlertsFor(1, i) # {} \/ Alerting(1, i)
          /\ AlertsFor(2, i) # {} \/ Alerting(2, i)

(* C3: a cycle whose page shows a tracked men's id restocked dispatches    *)
(* exactly one Restocked alert for it.                                     *)
C3_RestockAlerted ==
    \A t \in Tasks :
        CycleOver(t) =>
            \A i \in restockDue[t] :
                Cardinality({k \in AlertsFor(t, i) :
                               alertLog[t][k].message.type # NewAlertType}) = 1

C5_PhotoThenText ==
    \A t \in Tasks :
        /\ \A k \in DOMAIN alertLog[t] :
             LET e == alertLog[t][k]
             IN  /\ (e.photo # "none") <=> e.image
                 /\ (e.text # "none") <=> (e.photo = "fail" \/ ~e.image)
                 /\ e.photo # "none" => e.caption = e.message
                 /\ e.text # "none" => e.body = e.message
        /\ pc[t] = "photo" =>
             /\ call[t].photo = "pending" /\ call[t].text = "none"
             /\ call[t].caption = call[t].message
             /\ products[t][idx[t]].image
        /\ pc[t] = "text" =>
             /\ call[t].text = "pending"
             /\ call[t].body = call[t].message
             /\ call[t].photo = IF products[t][idx[t]].image THEN "fail" ELSE "none"

(* An alert whose photo failed was delivered as text.                      *)
C5_Witness ==
    \E k \in DOMAIN alertLog[1] :
        /\ alertLog[1][k].photo = "fail"
        /\ alertLog[1][k].text = "ok"
        /\ alertLog[1][k].body = alertLog[1][k].caption

(* C6: when every delivery of an alert failed, send_telegram_alert returns *)
(* to its caller something else than what it returns after a delivery.     *)
C6_FailureSignalled ==
    \A t \in Tasks : \A k \in DOMAIN alertLog[t] :
        ~Delivered(alertLog[t][k]) => alertLog[t][k].ret # AlertReturnValue(TRUE)

(* C7: a call of send_telegram_alert adds 1 to stats['alerts_sent'] when   *)
(* the alert was delivered and 0 when every attempt failed.                *)
C7_CountedIffDelivered ==
    \A t \in Tasks : \A k \in DOMAIN alertLog[t] :
        alertLog[t][k].counted = IF Delivered(alertLog[t][k]) THEN 1 ELSE 0

(* The photo failed, the text was delivered, and the alert counted once.   *)
C7_Witness ==
    \E k \in DOMAIN alertLog[1] :
        /\ alertLog[1][k].photo = "fail"
        /\ alertLog[1][k].text = "ok"
        /\ alertLog[1][k].counted = 1
        /\ stats.alerts_sent >= 1

(* C8: a failed delivery never ends the cycle: the for loop reaches every  *)
(* record after it, and every new men's id of the page gets its call of    *)
(* send_telegram_alert.  A check that raised did so at a record whose id   *)
(* is not hashable, never in a delivery.                                   *)
C8_FailureDoesNotBlock ==
    /\ pc[1] = "raised" =>
         /\ idx[1] \in DOMAIN products[1]
         /\ ~Hashable(products[1][idx[1]].id)
    /\ (prog = "bot" /\ CycleOver(1)) =>
         /\ idx[1] = Len(products[1]) + 1
         /\ \A k \in DOMAIN products[1] :
              (products[1][k].gender = "men" /\ products[1][k].id \notin seenAtStart[1])
                  => AlertsFor(1, products[1][k].id) # {}

(* A cycle ended whose first alert failed and whose second was dispatched. *)
C8_Witness ==
    /\ prog = "bot"
    /\ CycleOver(1)
    /\ Len(alertLog[1]) = 2
    /\ ~Delivered(alertLog[1][1])

(* C9: in scan_products, an exception while handling one product leaves   *)
(* the alerts of the new or restocked products after it dispatched.        *)
C9_ScanFailureDoesNotBlock ==
    (scan.status = "done" /\ scan.failedAt > 0) =>
        \A k \in DOMAIN scan.list :
            (k > scan.failedAt /\ IsDelta(scan.list[k])) => k \in scan.alerted

(* The poll loops: the while loop of run_30_second_bot, and that of run(). *)
BotInLoop == prog = "bot" /\ spc \in {"sleep", "in_check"}

MainInLoop == prog = "main" /\ mpc \in {"run_top", "run_scan", "sleeping", "except_sleep"}

(* C10: a poll loop, once entered, is left only when it is cancelled from  *)
(* outside; the end of a cycle, failed or not, is followed by a sleep and  *)
(* the sleep by the next cycle.                                            *)
C10_LoopSurvivesFailures ==
    [][ /\ BotInLoop => (BotInLoop' \/ spc' = "cancelled")
        /\ (BotInLoop /\ spc = "in_check" /\ spc' # spc) => spc' = "sleep"
        /\ (BotInLoop /\ spc = "sleep" /\ spc' # spc) => spc' \in {"in_check", "cancelled"}
        /\ MainInLoop => (MainInLoop' \/ ~is_running)
        /\ (MainInLoop /\ mpc = "run_scan" /\ mpc' # mpc)
              => mpc' \in {"sleeping", "except_sleep"}
        /\ (MainInLoop /\ mpc \in {"sleeping", "except_sleep"} /\ mpc' # mpc)
              => mpc' = "run_top"
        /\ (MainInLoop /\ mpc = "run_top" /\ is_running /\ mpc' # mpc)
              => mpc' = "run_scan"
      ]_vars

(* The loop of run() sleeps after a scan that ended in an exception.       *)
C10_Witness ==
    /\ prog = "main"
    /\ mpc \in {"sleeping", "except_sleep"}
    /\ is_running
    /\ scan.outcome = "raised"

(* C11: a cycle whose fetch yields no payload adds 1 to stats['total_checks'] *)
(* when it starts and then returns with no alert dispatched, no exception, *)
(* and seen_products, men_products, women_products and the other entries   *)
(* of stats as they were.                                                  *)
C11_NoPayloadNoEffect ==
    [][ /\ (prog = "bot" /\ pc[1] = "idle" /\ pc'[1] = "fetch") =>
              /\ stats' = [stats EXCEPT !.total_checks = @ + 1]
              /\ UNCHANGED <<seen_products, men_products, women_products,
                             newAlertCount>>
        /\ (prog = "bot" /\ pc[1] = "fetch" /\ fetched'[1] = "none") =>
              /\ pc'[1] = "returned"
              /\ alertLog'[1] = <<>>
              /\ UNCHANGED <<seen_products, men_products, women_products, stats,
                             newAlertCount>>
      ]_vars

(* A cycle without payload has returned in a bot that tracks a product and *)
(* holds counts of an earlier page.                                        *)
C11_Witness ==
    /\ prog = "bot"
    /\ pc[1] = "returned"
    /\ fetched[1] = "none"
    /\ alertLog[1] = <<>>
    /\ seen_products # EmptyMap
    /\ stats.men_count > 0
    /\ stats.total_checks = 2

(* C12: in both schedulers a poll cycle that is not the first starts only  *)
(* after a sleep of the scheduler that followed the previous cycle.        *)
C12_SleepBetweenCycles == cadence # "back_to_back"

(* The strategy of that name has ended, by returning or by raising.        *)
StrategyOver(s) == stratOutcome[s] # "none"

(* C13: the strategies are invoked in the order of the list, a strategy    *)
(* is invoked only after every earlier one returned no products or raised, *)
(* and what get_shein_verse_men returns comes from the first strategy that *)
(* returned a non-empty list.                                              *)
C13_StrategyOrder ==
    /\ invoked = SubSeq(Strategies, 1, Len(invoked))
    /\ \A k \in 1..(Len(invoked) - 1) : stratOutcome[k] \in {"empty", "raised"}
    /\ \A j \in DOMAIN result.products :
         \E k \in DOMAIN Strategies :
             /\ result.products[j].src = Strategies[k]
             /\ stratOutcome[k] = "nonempty"
             /\ \A e \in 1..(k - 1) : stratOutcome[e] # "nonempty"

(* C14: no exception leaves _make_request or get_shein_verse_men, which    *)
(* returns a list, and the empty list when no strategy returned products.  *)
C14_NeverPropagates ==
    /\ cpc # "propagated"
    /\ cpc = "returned" => result.returned
    /\ (cpc = "returned" /\ \A k \in DOMAIN Strategies :
                                stratOutcome[k] \in {"empty", "raised"})
           => result.products = <<>>

(* The three strategies failed, by a transport error, by an exception of   *)
(* the parser and by a 403, and the empty list was returned.               *)
C14_Witness ==
    /\ cpc = "returned"
    /\ stratFailure[1] = "exception"
    /\ stratOutcome[2] = "raised"
    /\ stratFailure[3] = "403"
    /\ result = [returned |-> TRUE, products |-> <<>>]

(* C15: a strategy whose request failed with a 403, a 429 or a transport   *)
(* error has issued MAX_RETRIES requests when get_shein_verse_men leaves   *)
(* it.                                                                     *)
C15_RetriedBeforeNext ==
    \A k \in DOMAIN Strategies :
        (StrategyOver(k) /\ stratFailure[k] \in {"403", "429", "exception"})
            => attempts[k] = MAX_RETRIES

(* C16: at least MinSpacing seconds lie between the issues of any two      *)
(* consecutive HTTP requests of one client.                                *)
C16_MinSpacing ==
    issueGap # NoTime => issueGap[1] >= MinSpacing

(* A request is issued MinSpacing seconds after the previous one, which    *)
(* ended in an exception on a client whose last_request_time was never set. *)
C16_Witness ==
    /\ cpc \in {"strategy_request", "detail_request"}
    /\ lastReq = "exception"
    /\ last_request_time = NoTime
    /\ issueGap = <<MinSpacing>>

(* The methods of extract_shein_verse_products, in the order of the code.  *)
MethodOrder == <<"selectors", "json", "regex">>

(* C17: the methods run in the order selectors, json, regex; a method runs *)
(* only if every earlier one appended no record; the records returned are *)
(* those of the first method that appended any, and share its source.      *)
C17_FirstNonEmptyWins ==
    \A r \in DOMAIN runs :
        /\ runs[r].ran = SubSeq(MethodOrder, 1, Len(runs[r].ran))
        /\ \A m \in 2..Len(runs[r].ran) :
             \A e \in 1..(m - 1) : runs[r].appended[e] = 0
        /\ \A m \in DOMAIN MethodOrder :
             runs[r].appended[m] > 0 =>
                 /\ m <= Len(runs[r].ran)
                 /\ Len(runs[r].products) = runs[r].appended[m]
        /\ \A i, j \in DOMAIN runs[r].products :
             runs[r].products[i].source = runs[r].products[j].source

(* The containers of a page gave no record, its scripts gave some, and the *)
(* regex, which would have matched, did not run.                           *)
C17_Witness ==
    /\ page.containers # <<>>
    /\ page.matches > 0
    /\ \E r \in DOMAIN runs :
         /\ runs[r].ran = <<"selectors", "json">>
         /\ runs[r].products # <<>>
         /\ \A i \in DOMAIN runs[r].products :
              runs[r].products[i].source = "shein_verse_json"

(* C18: every record has one gender, men or women; a container's record    *)
(* whose name holds a men's keyword is men, also when the name holds a     *)
(* women's keyword or the url hints at women; one whose name holds a       *)
(* women's keyword and no men's keyword is women, also when the url hints  *)
(* at men.                                                                 *)
C18_ClassificationPriority ==
    \A r \in DOMAIN runs : \A i \in DOMAIN runs[r].products :
        LET product == runs[r].products[i]
            inMen == MatchesAny(Lower(product.name), men_keywords)
            inWomen == MatchesAny(Lower(product.name), women_keywords)
        IN  /\ product.gender \in Genders
            /\ product.source = "shein_verse" =>
                 /\ inMen => product.gender = "men"
                 /\ (inWomen /\ ~inMen) => product.gender = "women"

(* A record whose name holds keywords of both lists and whose url hints at *)
(* women was classified men.                                               *)
C18_Witness ==
    \E r \in DOMAIN runs : \E i \in DOMAIN runs[r].products :
        LET product == runs[r].products[i]
        IN  /\ product.source = "shein_verse"
            /\ MatchesAny(Lower(product.name), {<<"c","a","r","g","o">>})
            /\ MatchesAny(Lower(product.name), {<<"s","k","i","r","t">>})
            /\ MatchesAny(product.url, WomenUrlHints)
            /\ product.gender = "men"

(* C19: _is_men_product accepts a product whose name holds a men's keyword *)
(* and a women's keyword.                                                  *)
C19_AmbiguityKeepsMen ==
    (/\ verdict # "none"
     /\ MatchesAny(Lower(item), ClientMenKeywords)
     /\ MatchesAny(Lower(item), ClientWomenKeywords))
        => verdict = "True"

(* The genders an invocation assigned, in the order of its records.        *)
GendersOf(r) == [i \in DOMAIN runs[r].products |-> runs[r].products[i].gender]

(* C20: all invocations of extract_shein_verse_products on one page assign *)
(* the same genders.                                                       *)
C20_SameGenders ==
    \A a, b \in DOMAIN runs : GendersOf(a) = GendersOf(b)

(* C21: extracting the same element twice yields the same id: all the ids  *)
(* _extract_product_info gave for one element are equal, none of them      *)
(* depending on a random draw.                                             *)
C21_StableId ==
    prog = "identify" => \A i, j \in DOMAIN ids : ids[i] = ids[j]

(* C22: every return of extract_shein_verse_products reports the counts of *)
(* the records it returns: after a fetch that gave html, the stored        *)
(* men_count and women_count are the numbers of men's and women's records  *)
(* of the extracted list, also when the extraction failed.                 *)
C22_CountsFromRecords ==
    (prog = "bot" /\ pc[1] \notin {"idle", "fetch"} /\ fetched[1] \in {"page", "error"}) =>
        /\ stats.men_count = CountGender(products[1], "men")
        /\ stats.women_count = CountGender(products[1], "women")

(* C23: _parse_sizes reports a positive quantity only for a size the page  *)
(* lists as available, and when the page lists no available size the      *)
(* mapping is empty and total_stock is 0.                                  *)
C23_OnlyListedSizes ==
    (prog = "sizes" /\ sizes.returned) =>
        /\ \A x \in DOMAIN sizes.sizes :
             sizes.sizes[x] > 0 =>
                \E k \in DOMAIN detailPage :
                    detailPage[k].text = x /\ ~detailPage[k].disabled
        /\ (\A k \in DOMAIN detailPage : detailPage[k].disabled) =>
                (sizes.sizes = EmptyMap /\ sizes.total_stock = 0)

(* C24: a missing token or chat id is fatal at startup only.  With the     *)
(* credentials missing, main() of bot.py gets no further than the          *)
(* construction: nothing is fetched, no message is sent, and once the      *)
(* ValueError is logged main() has returned and does not run again.  The   *)
(* configuration error is reached from the construction only: no position  *)
(* of a constructed bot leads to it.                                       *)
C24_FatalAtStartupOnly ==
    /\ [](credentials = "missing" =>
            /\ spc \in {"construct", "config_error"}
            /\ stats = NewStats
            /\ \A t \in Tasks : pc[t] = "idle" /\ fetched[t] = "idle"
            /\ \A i \in Ids : newAlertCount[i] = 0)
    /\ [][ /\ spc = "config_error" => spc' = "config_error"
           /\ spc' = "config_error" => spc \in {"construct", "config_error"} ]_vars

(* The construction failed for missing credentials and main() returned.    *)
C24_Witness ==
    prog = "bot" /\ credentials = "missing" /\ spc = "config_error"

(* C25: in main.py, once stop() has set is_running to False, run() starts  *)
(* no new scan at the top of its loop.                                     *)
C25_NoScanAfterStop ==
    [][(prog = "main" /\ stop_called /\ mpc = "run_top") => mpc' # "run_scan"]_vars

C27_EveryScanCounted ==
    (prog = "main" /\ scan.status = "done") =>
        check_count = scan.count_at_start + 1

(* C28: a request of _make_request that ends with HTTP 403 or HTTP 429     *)
(* replaces the session by a new one before _make_request returns.         *)
C28_SoftBlockReplacesSession ==
    [][(/\ prog = "client"
        /\ cpc \in {"strategy_request", "detail_request"}
        /\ cpc' # cpc
        /\ lastReq' \in {"403", "429"}) => session' # session]_vars

(* C29: no method of extract_shein_verse_products returns more than 50     *)
(* records: of every invocation, the records each method appended are at   *)
(* most 50.                                                                *)
C29_OutputCapped ==
    prog = "extract" =>
        \A k \in DOMAIN runs : \A m \in DOMAIN runs[k].appended :
            runs[k].appended[m] <= 50

(* The well-formed items of the scripts the JSON method goes through: of   *)
(* every script up to the first whose try reaches its break, the items     *)
(* before and after a failing one, as far as the slice [:30] reaches.      *)
RECURSIVE WellFormedItems(_)
WellFormedItems(scripts) ==
    IF scripts = <<>> THEN 0
    ELSE LET sc == Head(scripts)
             n == LenCapped(Len(sc.cats) + Len(sc.lost), JsonCap)
         IN  IF sc.raises THEN n + WellFormedItems(Tail(scripts)) ELSE n

(* C30: a failure on one element skips only that element: when the JSON    *)
(* method ran, it appended a record for every well-formed item of the      *)
(* scripts it went through, those after a failing item included.           *)
C30_SkipsOnlyFailing ==
    prog = "extract" =>
        \A k \in DOMAIN runs :
            runs[k].ran # <<"selectors">> =>
                runs[k].appended[2] >= WellFormedItems(page.scripts)

(* C31: after a cycle, the entry tracked for every id the cycle observed   *)
(* equals the record the cycle observed for it (the last one, when the     *)
(* page lists the id more than once): seen_products for a men's record,    *)
(* women_products for a women's record.                                    *)
C31_TrackedIsLatest ==
    (prog = "bot" /\ CycleOver(1)) =>
        \A k \in DOMAIN products[1] :
            LET p == products[1][k]
                later == {j \in DOMAIN products[1] : j > k /\ products[1][j].id = p.id}
            IN  later = {} =>
                    /\ p.gender = "men" => seen_products[p.id] = p
                    /\ p.gender = "women" => women_products[p.id] = p

(* C33: an id is entered into seen_products only after a delivery of its   *)
(* NEW alert: every id the running cycle entered has a completed call of   *)
(* send_telegram_alert that delivered, by photo or by text.                *)
C33_SeenOnlyIfDelivered ==
    (prog = "bot" /\ pc[1] # "idle") =>
        \A i \in (DOMAIN seen_products) \ seenAtStart[1] :
            \E k \in AlertsFor(1, i) : Delivered(alertLog[1][k])

(* C35: no id is tracked both as men's and as women's, and seen_products   *)
(* and men_products hold the same ids.                                     *)
C35_TrackedOnce ==
    prog \in BotProgs =>
        /\ (DOMAIN seen_products) \cap (DOMAIN women_products) = {}
        /\ DOMAIN seen_products = DOMAIN men_products

(* C32: every record extract_shein_verse_products returns has a name of at *)
(* most 100 characters.                                                    *)
C32_NameBounded ==
    prog = "extract" =>
        \A r \in DOMAIN runs : \A i \in DOMAIN runs[r].products :
            Len(runs[r].products[i].name) <= 100

(* The words that name women only.                                         *)
WomenWords == {<<"w","o","m","e","n">>, <<"w","o","m","a","n">>}

(* C34: a container whose name is the word 'women' or 'woman', and an item *)
(* of a goodsList whose cat_name is that word, is classified women.        *)
C34_WomenOnlyIsWomen ==
    prog = "extract" =>
        \A r \in DOMAIN runs : \A i \in DOMAIN runs[r].products :
            LET product == runs[r].products[i]
            IN  /\ (product.source = "shein_verse"
                        /\ Lower(product.name) \in WomenWords)
                     => product.gender = "women"
                /\ (product.source = "shein_verse_json"
                        /\ Lower(product.cat) \in WomenWords)
                     => product.gender = "women"

TextDelivered ==
    \E k \in DOMAIN delivery.requests :
        /\ delivery.requests[k].op = "sendMessage"
        /\ delivery.requests[k].outcome = "200"

PhotoRequested ==
    \E k \in DOMAIN delivery.requests : delivery.requests[k].op = "sendPhoto"

(* C37: when a call of send_product_alert has ended, it returned True      *)
(* exactly if the text was delivered; a photo was requested only after a   *)
(* delivered text and for a product with an image; with a credential       *)
(* missing it made no request and returned False.                          *)
C37_TrueIffTextDelivered ==
    (prog = "alert" /\ delivery.pc \notin {"start", "photo"}) =>
        /\ (delivery.pc = "returned" /\ delivery.success) <=> TextDelivered
        /\ PhotoRequested => (TextDelivered /\ delivery.product.image # "")
        /\ (delivery.token = "" \/ delivery.chat_id = "") =>
               /\ delivery.requests = <<>>
               /\ delivery.pc = "returned"
               /\ ~delivery.success

====
